---------------------------- MODULE Spec2Model ----------------------------
(***************************************************************************)
(* A model of the phishing-email detector: the text cleaning and feature   *)
(* extraction of data_preprocessor.py and feature_extractor.py, the        *)
(* training pipeline of model_trainer.py, the three model files it writes, *)
(* and the loaders and the inference paths of app.py and cli.py.           *)
(*                                                                         *)
(* A text is a sequence of one-character strings.  Floating-point values   *)
(* are kept in fixed point with three decimals (Ratio).  The libraries the *)
(* code calls are modelled by what they do on the characters and values    *)
(* of this model; each such definition says what it leaves out.            *)
(***************************************************************************)
EXTENDS Integers, Sequences, FiniteSets, TLC

(***************************************************************************)
(* Characters: printable ASCII in code order, tab and newline.  The        *)
(* string "grave" stands for the character of code 96, which a TLA+ string *)
(* cannot hold.                                                            *)
(***************************************************************************)
Printable ==
  <<
    " ", "!", "\"", "#", "$", "%", "&", "'", "(", ")", "*", "+", ",", "-", ".", "/", "0", "1", "2",
    "3", "4", "5", "6", "7", "8", "9", ":", ";", "<", "=", ">", "?", "@", "A", "B", "C", "D", "E",
    "F", "G", "H", "I", "J", "K", "L", "M", "N", "O", "P", "Q", "R", "S", "T", "U", "V", "W", "X",
    "Y", "Z", "[", "\\", "]", "^", "_", "grave", "a", "b", "c", "d", "e", "f", "g", "h", "i", "j", "k",
    "l", "m", "n", "o", "p", "q", "r", "s", "t", "u", "v", "w", "x", "y", "z", "{", "|", "}", "~"
  >>

Chars == {Printable[i] : i \in 1..Len(Printable)} \cup {"\t", "\n"}

\* Python's ord(c).
OrdOf ==
  [c \in Chars |->
     IF c = "\t" THEN 9
     ELSE IF c = "\n" THEN 10
     ELSE 31 + (CHOOSE i \in 1..Len(Printable) : Printable[i] = c)]

ord(c) == OrdOf[c]

isupper(c) == ord(c) \in 65..90

islower(c) == ord(c) \in 97..122

isalpha(c) == isupper(c) \/ islower(c)

isdigit(c) == ord(c) \in 48..57

\* The regular expression class \s.
isspace(c) == c \in {" ", "\t", "\n"}

\* The regular expression class \w.
isword(c) == isalpha(c) \/ isdigit(c) \/ c = "_"

\* str.lower() on one character.
lower(c) == IF isupper(c) THEN Printable[ord(c) + 32 - 31] ELSE c

\* str.lower().
\* The function f on 1..n as a tuple, its entries computed once.
array(f) == f \o <<>>

\* F(v), with v computed once: a local variable assigned v and used in F.
Let(v, F(_)) == CHOOSE r \in {F(x) : x \in {v}} : TRUE

str_lower(s) == [i \in 1..Len(s) |-> lower(s[i])]

\* a / b as a float, kept to three decimals.
Ratio(a, b) == (a * 1000) \div b

Max(a, b) == IF a >= b THEN a ELSE b

RECURSIVE SumSeq(_)
SumSeq(s) == IF s = <<>> THEN 0 ELSE Head(s) + SumSeq(Tail(s))

RECURSIVE Concat(_)
\* The concatenation of a sequence of sequences.
Concat(ss) == IF ss = <<>> THEN <<>> ELSE Head(ss) \o Concat(Tail(ss))

\* needle in hay (substring containment).
Contains(hay, needle) ==
  \E i \in 0..(Len(hay) - Len(needle)) : SubSeq(hay, i + 1, i + Len(needle)) = needle

\* hay[i:].startswith(pat)
StartsAt(hay, i, pat) ==
  /\ i + Len(pat) - 1 <= Len(hay)
  /\ \A k \in 1..Len(pat) : hay[i + k - 1] = pat[k]

\* s.count(c)
CountChar(s, c) == Cardinality({i \in 1..Len(s) : s[i] = c})

RECURSIVE SplitFrom(_, _, _, _)
SplitFrom(text, i, cur, acc) ==
  IF i > Len(text) THEN (IF cur = <<>> THEN acc ELSE Append(acc, cur))
  ELSE IF isspace(text[i])
       THEN SplitFrom(text, i + 1, <<>>, IF cur = <<>> THEN acc ELSE Append(acc, cur))
       ELSE SplitFrom(text, i + 1, Append(cur, text[i]), acc)

\* str.split(): the maximal runs of non-whitespace characters.
split(text) == SplitFrom(text, 1, <<>>, <<>>)

RECURSIVE JoinFrom(_, _)
JoinFrom(tokens, i) ==
  IF i > Len(tokens) THEN <<>>
  ELSE IF i = Len(tokens) THEN tokens[i]
  ELSE tokens[i] \o <<" ">> \o JoinFrom(tokens, i + 1)

\* ' '.join(tokens)
join(tokens) == JoinFrom(tokens, 1)

\* The regular expression assertion \b at position k (before text[k]).
word_boundary(text, k) ==
  LET w(j) == j >= 1 /\ j <= Len(text) /\ isword(text[j])
  IN  w(k - 1) # w(k)

(***************************************************************************)
(* data_preprocessor.py: EmailPreprocessor.                                *)
(***************************************************************************)

\* nltk's stopwords.words('english'): the part of the list this model uses.
stop_words ==
  {
    <<"t","h","e">>, <<"f","o","r">>, <<"n","o","w">>, <<"a","n","d">>, <<"y","o","u">>,
    <<"a","r","e">>, <<"n","o","t">>, <<"b","u","t">>, <<"w","a","s">>, <<"h","a","s">>,
    <<"h","a","d">>, <<"h","o","w">>, <<"a","l","l">>, <<"a","n","y">>, <<"c","a","n">>,
    <<"d","i","d">>, <<"i","t","s">>, <<"o","u","r">>, <<"o","u","t">>, <<"o","f","f">>,
    <<"o","w","n">>, <<"t","o","o">>, <<"w","h","o">>, <<"w","h","y">>, <<"t","h","i","s">>,
    <<"t","h","a","t">>, <<"w","i","t","h">>, <<"f","r","o","m">>, <<"y","o","u","r">>,
    <<"w","i","l","l">>, <<"j","u","s","t">>, <<"h","e","r","e">>, <<"h","a","v","e">>,
    <<"b","e","e","n">>, <<"i","t">>, <<"i","s">>, <<"o","n">>, <<"t","o">>, <<"o","f">>,
    <<"i","n">>, <<"a","t">>, <<"b","e">>, <<"d","o">>
  }

\* The number of characters the reference &name takes at position i, or 0:
\* html.parser reads a reference that ends with ';' (taken with it) or that
\* is followed by a character that is no letter and no digit.
reference(text, i, name) ==
  LET j == i + 1 + Len(name)
  IN  IF ~StartsAt(text, i, <<"&">> \o name) \/ j > Len(text) THEN 0
      ELSE IF text[j] = ";" THEN j + 1 - i
      ELSE IF ~(isalpha(text[j]) \/ isdigit(text[j])) THEN j - i
      ELSE 0

RECURSIVE html_text(_, _, _)
\* The text html.parser hands to BeautifulSoup, from position i on.  A '<'
\* followed by a letter, '/', '!' or '?' opens a construct that ends at the
\* next '>' and yields no text; without a closing '>' the '<' is text.  The
\* references &lt &gt &amp are decoded.  Not modelled: '>' inside quoted
\* attribute values or comments, other references, script and style content.
html_text(text, i, acc) ==
  LET n == Len(text)
      closes == {k \in (i + 1)..n : text[k] = ">"}
      gt == IF closes = {} THEN 0 ELSE CHOOSE k \in closes : \A m \in closes : k <= m
  IN  IF i > n THEN acc
      ELSE IF text[i] = "<"
        THEN IF /\ i < n
                /\ (isalpha(text[i + 1]) \/ text[i + 1] \in {"/", "!", "?"})
                /\ gt > 0
             THEN html_text(text, gt + 1, acc)
             ELSE html_text(text, i + 1, Append(acc, "<"))
      ELSE IF reference(text, i, <<"l","t">>) > 0
        THEN html_text(text, i + reference(text, i, <<"l","t">>), Append(acc, "<"))
      ELSE IF reference(text, i, <<"g","t">>) > 0
        THEN html_text(text, i + reference(text, i, <<"g","t">>), Append(acc, ">"))
      ELSE IF reference(text, i, <<"a","m","p">>) > 0
        THEN html_text(text, i + reference(text, i, <<"a","m","p">>), Append(acc, "&"))
      ELSE html_text(text, i + 1, Append(acc, text[i]))

\* EmailPreprocessor.remove_html_tags
remove_html_tags(text) ==
  IF text = <<>> THEN <<>> ELSE html_text(text, 1, <<>>)

\* One character of the URL pattern's repeated group:
\* [a-zA-Z] | [0-9] | [$-_@.&+] | [!*\\(\\),]
\* ([$-_] is the range of codes 36..95; the group's last alternative,
\* %[0-9a-fA-F][0-9a-fA-F], consumes only characters the earlier ones accept.)
url_char(c) ==
  \/ isalpha(c)
  \/ isdigit(c)
  \/ ord(c) \in 36..95 \/ c \in {"@", ".", "&", "+"}
  \/ c \in {"!", "*", "\\", "(", ")", ","}

RECURSIVE url_run_end(_, _)
\* The first position from j on that holds no URL character.
url_run_end(text, j) ==
  IF j <= Len(text) /\ url_char(text[j]) THEN url_run_end(text, j + 1) ELSE j

\* The end (exclusive) of the match of http[s]?://(...)+ that starts at i, or 0.
match_url(text, i) ==
  LET j == IF StartsAt(text, i + 4, <<"s">>) THEN i + 5 ELSE i + 4
      e == url_run_end(text, j + 3)
  IN  IF /\ StartsAt(text, i, <<"h","t","t","p">>)
         /\ StartsAt(text, j, <<":","/","/">>)
         /\ e > j + 3
      THEN e ELSE 0

RECURSIVE find_urls(_, _, _)
find_urls(text, i, acc) ==
  IF i > Len(text) THEN acc
  ELSE LET e == match_url(text, i)
       IN  IF e > 0 THEN find_urls(text, e, Append(acc, SubSeq(text, i, e - 1)))
           ELSE find_urls(text, i + 1, acc)

RECURSIVE sub_urls(_, _, _)
sub_urls(text, i, acc) ==
  IF i > Len(text) THEN acc
  ELSE LET e == match_url(text, i)
       IN  IF e > 0 THEN sub_urls(text, e, acc)
           ELSE sub_urls(text, i + 1, Append(acc, text[i]))

\* EmailPreprocessor.remove_urls
remove_urls(text) == sub_urls(text, 1, <<>>)

\* EmailPreprocessor.extract_urls
extract_urls(text) == IF text = <<>> THEN <<>> ELSE find_urls(text, 1, <<>>)

\* [A-Za-z0-9._%+-]
email_local_char(c) == isalpha(c) \/ isdigit(c) \/ c \in {".", "_", "%", "+", "-"}

\* [A-Za-z0-9.-]
email_domain_char(c) == isalpha(c) \/ isdigit(c) \/ c \in {".", "-"}

\* [A-Z|a-z]
email_tld_char(c) == isalpha(c) \/ c = "|"

RECURSIVE email_local_end(_, _)
email_local_end(text, j) ==
  IF j <= Len(text) /\ email_local_char(text[j]) THEN email_local_end(text, j + 1) ELSE j

\* The end (exclusive) of the match of
\* \b[A-Za-z0-9._%+-]+@[A-Za-z0-9.-]+\.[A-Z|a-z]{2,}\b that starts at i, or 0.
\* The local part is the whole run up to the '@'; the domain and the last
\* label are greedy: the last '.' that leaves a match, then the longest label.
match_email(text, i) ==
  LET n == Len(text)
      a == email_local_end(text, i)
      cands == {pe \in ((a + 2)..n) \X ((a + 5)..(n + 1)) :
                  /\ text[pe[1]] = "."
                  /\ \A k \in (a + 1)..(pe[1] - 1) : email_domain_char(text[k])
                  /\ pe[2] >= pe[1] + 3
                  /\ \A k \in (pe[1] + 1)..(pe[2] - 1) : email_tld_char(text[k])
                  /\ word_boundary(text, pe[2])}
      best == CHOOSE pe \in cands :
                \A qe \in cands : qe[1] < pe[1] \/ (qe[1] = pe[1] /\ qe[2] <= pe[2])
  IN  IF ~word_boundary(text, i) \/ a = i \/ a > n THEN 0
      ELSE IF text[a] # "@" \/ cands = {} THEN 0
      ELSE best[2]

RECURSIVE find_emails(_, _, _)
find_emails(text, i, acc) ==
  IF i > Len(text) THEN acc
  ELSE LET e == match_email(text, i)
       IN  IF e > 0 THEN find_emails(text, e, Append(acc, SubSeq(text, i, e - 1)))
           ELSE find_emails(text, i + 1, acc)

RECURSIVE sub_emails(_, _, _)
sub_emails(text, i, acc) ==
  IF i > Len(text) THEN acc
  ELSE LET e == match_email(text, i)
       IN  IF e > 0 THEN sub_emails(text, e, acc)
           ELSE sub_emails(text, i + 1, Append(acc, text[i]))

\* EmailPreprocessor.remove_emails
remove_emails(text) == sub_emails(text, 1, <<>>)

\* EmailPreprocessor.extract_emails
extract_emails(text) == IF text = <<>> THEN <<>> ELSE find_emails(text, 1, <<>>)

\* A remove_special_chars that removes the digits only.
remove_special_chars_digits_only(text) == SelectSeq(text, LAMBDA c : ~isdigit(c))

\* EmailPreprocessor.remove_special_chars: re.sub(r'[^a-zA-Z\s]', '', text)
remove_special_chars(text) == SelectSeq(text, LAMBDA c : isalpha(c) \/ isspace(c))

\* nltk's word_tokenize on text of letters and whitespace: the whitespace
\* split.  (Its splitting of contractions such as "cannot" is not modelled.)
word_tokenize(text) == split(text)

EndsWith(word, suffix) ==
  /\ Len(word) >= Len(suffix)
  /\ SubSeq(word, Len(word) - Len(suffix) + 1, Len(word)) = suffix

DropLast(word, k) == SubSeq(word, 1, Len(word) - k)

\* PorterStemmer.stem: lower-casing and step 1a of the algorithm (plural
\* endings).  Words of one or two letters are returned as they are.  The
\* later steps of the algorithm are not modelled.
stem(token) ==
  LET word == str_lower(token)
  IN  IF Len(word) <= 2 THEN word
      ELSE IF EndsWith(word, <<"s","s","e","s">>) THEN DropLast(word, 2)
      ELSE IF EndsWith(word, <<"i","e","s">>)
        THEN IF Len(word) = 4 THEN DropLast(word, 1) ELSE DropLast(word, 2)
      ELSE IF EndsWith(word, <<"s","s">>) THEN word
      ELSE IF EndsWith(word, <<"s">>) THEN DropLast(word, 1)
      ELSE word

\* EmailPreprocessor.tokenize_and_clean
tokenize_and_clean(text) ==
  IF text = <<>> THEN <<>>
  ELSE LET tokens == word_tokenize(str_lower(text))
           kept == SelectSeq(tokens, LAMBDA token : token \notin stop_words /\ Len(token) > 2)
       IN  [i \in 1..Len(kept) |-> stem(kept[i])]

\* A preprocess_email that falls back to the text it was given when no token
\* is left.
preprocess_email_or_raw(email_text) ==
  IF email_text = <<>> THEN <<>>
  ELSE LET tokens == tokenize_and_clean(
                       remove_special_chars(
                         remove_emails(remove_urls(remove_html_tags(email_text)))))
       IN  IF tokens = <<>> THEN email_text ELSE join(tokens)

\* EmailPreprocessor.preprocess_email
preprocess_email(email_text) ==
  IF email_text = <<>> THEN <<>>
  ELSE join(tokenize_and_clean(
              remove_special_chars(remove_emails(remove_urls(remove_html_tags(email_text))))))

(***************************************************************************)
(* feature_extractor.py: the statistical features.                         *)
(***************************************************************************)

suspicious_words ==
  <<
    <<"u","r","g","e","n","t">>,
    <<"i","m","m","e","d","i","a","t","e">>,
    <<"a","c","t"," ","n","o","w">>,
    <<"l","i","m","i","t","e","d"," ","t","i","m","e">>,
    <<"e","x","p","i","r","e","s">>,
    <<"c","l","i","c","k"," ","h","e","r","e">>,
    <<"c","l","i","c","k"," ","n","o","w">>,
    <<"v","e","r","i","f","y">>,
    <<"c","o","n","f","i","r","m">>,
    <<"u","p","d","a","t","e">>,
    <<"s","u","s","p","e","n","d">>,
    <<"s","u","s","p","e","n","d","e","d">>,
    <<"a","c","c","o","u","n","t">>,
    <<"s","e","c","u","r","i","t","y">>,
    <<"a","l","e","r","t">>,
    <<"w","a","r","n","i","n","g">>,
    <<"c","o","n","g","r","a","t","u","l","a","t","i","o","n","s">>,
    <<"w","i","n","n","e","r">>,
    <<"p","r","i","z","e">>,
    <<"l","o","t","t","e","r","y">>,
    <<"f","r","e","e">>,
    <<"b","o","n","u","s">>,
    <<"o","f","f","e","r">>,
    <<"d","e","a","l">>,
    <<"d","i","s","c","o","u","n","t">>,
    <<"s","a","v","e">>,
    <<"m","o","n","e","y">>,
    <<"c","a","s","h">>,
    <<"c","r","e","d","i","t">>,
    <<"l","o","a","n">>,
    <<"d","e","b","t">>,
    <<"i","n","v","e","s","t","m","e","n","t">>,
    <<"g","u","a","r","a","n","t","e","e">>,
    <<"r","i","s","k","-","f","r","e","e">>,
    <<"n","o"," ","o","b","l","i","g","a","t","i","o","n">>,
    <<"a","c","t"," ","f","a","s","t">>,
    <<"d","o","n","'","t"," ","d","e","l","a","y">>,
    <<"h","u","r","r","y">>,
    <<"r","u","s","h">>,
    <<"n","o","w">>,
    <<"t","o","d","a","y"," ","o","n","l","y">>,
    <<"l","i","m","i","t","e","d"," ","o","f","f","e","r">>,
    <<"e","x","c","l","u","s","i","v","e">>,
    <<"s","p","e","c","i","a","l">>,
    <<"a","m","a","z","i","n","g">>,
    <<"i","n","c","r","e","d","i","b","l","e">>,
    <<"u","n","b","e","l","i","e","v","a","b","l","e">>,
    <<"f","a","n","t","a","s","t","i","c">>,
    <<"w","o","n","d","e","r","f","u","l">>
  >>

\* np.zeros(n)
zeros(n) == [i \in 1..n |-> 0]

\* FeatureExtractor.extract_basic_features
extract_basic_features(email_text) ==
  IF email_text = <<>> THEN zeros(8)
  ELSE LET text_length == Len(email_text)
           word_count == Len(split(email_text))
           char_count == Len(email_text)
           url_count == Len(extract_urls(email_text))
           email_count == Len(extract_emails(email_text))
           suspicious_count ==
             Cardinality({k \in 1..Len(suspicious_words) :
                            Contains(str_lower(email_text), str_lower(suspicious_words[k]))})
           uppercase_ratio ==
             Ratio(Cardinality({i \in 1..Len(email_text) : isupper(email_text[i])}),
                   Max(Len(email_text), 1))
           exclamation_count == CountChar(email_text, "!")
       IN  << text_length, word_count, char_count, url_count,
              email_count, suspicious_count, uppercase_ratio, exclamation_count >>

\* A count of the pieces that are not empty, as a split that drops empty
\* strings would give.
sentence_pieces_nonempty(text) ==
  LET mark(i) == text[i] \in {".", "!", "?"}
  IN  Cardinality({i \in 1..Len(text) : ~mark(i) /\ (i = 1 \/ mark(i - 1))})

\* len(re.split(r'[.!?]+', text)): one more than the number of maximal runs
\* of '.', '!' and '?'.
sentence_pieces(text) ==
  LET mark(i) == text[i] \in {".", "!", "?"}
  IN  1 + Cardinality({i \in 1..Len(text) : mark(i) /\ (i = 1 \/ ~mark(i - 1))})

\* An extract_advanced_features without `if not email_text: return np.zeros(5)`.
extract_advanced_features_unguarded(email_text) ==
  LET words == split(email_text)
      avg_word_length ==
        IF words # <<>>
        THEN Ratio(SumSeq([i \in 1..Len(words) |-> Len(words[i])]), Len(words))
        ELSE 0
      sentence_count == sentence_pieces(email_text)
      avg_sentence_length == Ratio(Len(words), Max(sentence_count, 1))
      question_count == CountChar(email_text, "?")
      capital_count == Cardinality({i \in 1..Len(email_text) : isupper(email_text[i])})
  IN  << avg_word_length, sentence_count, avg_sentence_length,
         question_count, capital_count >>

\* FeatureExtractor.extract_advanced_features
extract_advanced_features(email_text) ==
  IF email_text = <<>> THEN zeros(5)
  ELSE LET words == split(email_text)
           avg_word_length ==
             IF words # <<>>
             THEN Ratio(SumSeq([i \in 1..Len(words) |-> Len(words[i])]), Len(words))
             ELSE 0
           sentence_count == sentence_pieces(email_text)
           avg_sentence_length == Ratio(Len(words), Max(sentence_count, 1))
           question_count == CountChar(email_text, "?")
           capital_count == Cardinality({i \in 1..Len(email_text) : isupper(email_text[i])})
       IN  << avg_word_length, sentence_count, avg_sentence_length,
              question_count, capital_count >>

(***************************************************************************)
(* sklearn's TfidfVectorizer(max_features=1000, ngram_range=(1, 2),        *)
(* stop_words='english') as the feature extractor uses it.  A term's       *)
(* weight is modelled by the number of times the term occurs in the        *)
(* document: the inverse-document-frequency factor and the row's           *)
(* normalisation, both positive, are left out.                             *)
(***************************************************************************)

\* TfidfVectorizer(max_features=1000, ...)
max_features == 1000

\* sklearn's ENGLISH_STOP_WORDS: the part of the list this model uses.
english_stop_words ==
  {
    <<"t","h","e">>, <<"f","o","r">>, <<"n","o","w">>, <<"a","n","d">>, <<"y","o","u">>,
    <<"a","r","e">>, <<"n","o","t">>, <<"b","u","t">>, <<"w","a","s">>, <<"h","a","s">>,
    <<"h","a","d">>, <<"h","o","w">>, <<"a","l","l">>, <<"a","n","y">>, <<"c","a","n">>,
    <<"i","t","s">>, <<"o","u","r">>, <<"o","u","t">>, <<"o","f","f">>, <<"o","w","n">>,
    <<"t","o","o">>, <<"w","h","o">>, <<"w","h","y">>, <<"t","h","i","s">>, <<"t","h","a","t">>,
    <<"w","i","t","h">>, <<"f","r","o","m">>, <<"y","o","u","r">>, <<"w","i","l","l">>,
    <<"h","e","r","e">>, <<"h","a","v","e">>, <<"b","e","e","n">>, <<"s","e","e">>,
    <<"c","a","l","l">>, <<"f","i","n","d">>, <<"g","i","v","e">>, <<"t","a","k","e">>,
    <<"s","h","o","w">>, <<"b","a","c","k">>, <<"m","a","d","e">>, <<"k","e","e","p">>,
    <<"m","o","v","e">>, <<"i","t">>, <<"i","s">>, <<"o","n">>, <<"t","o">>, <<"o","f">>,
    <<"i","n">>, <<"a","t">>, <<"b","e">>, <<"d","o">>
  }

\* The outcome of a call: a returned value, or a raised exception.
Return(v) == [exc |-> "none", val |-> v]

Raise(e) == [exc |-> e, val |-> <<>>]

RECURSIVE WordRunsFrom(_, _, _, _)
WordRunsFrom(doc, i, cur, acc) ==
  IF i > Len(doc) THEN (IF Len(cur) >= 2 THEN Append(acc, cur) ELSE acc)
  ELSE IF isword(doc[i])
       THEN WordRunsFrom(doc, i + 1, Append(cur, doc[i]), acc)
       ELSE WordRunsFrom(doc, i + 1, <<>>, IF Len(cur) >= 2 THEN Append(acc, cur) ELSE acc)

\* The vectorizer's analyzer: lower-case, the tokens of (?u)\b\w\w+\b, the
\* stop words dropped, then the unigrams followed by the bigrams.
analyze(doc) ==
  Let(SelectSeq(WordRunsFrom(str_lower(doc), 1, <<>>, <<>>),
                LAMBDA w : w \notin english_stop_words),
      LAMBDA tokens :
        tokens \o [i \in 1..(Len(tokens) - 1) |-> tokens[i] \o <<" ">> \o tokens[i + 1]])

\* a < b for strings, by character codes.
LexLess(a, b) ==
  \E k \in 1..Len(b) :
     /\ \A j \in 1..(k - 1) : j <= Len(a) /\ a[j] = b[j]
     /\ (k = Len(a) + 1 \/ (k <= Len(a) /\ ord(a[k]) < ord(b[k])))

\* sorted(terms): each term stands after the terms that are less than it.
SortTerms(S) ==
  Let({<<Cardinality({y \in S : LexLess(y, x)}) + 1, x>> : x \in S}, LAMBDA ranked :
    [i \in 1..Cardinality(S) |-> (CHOOSE p \in ranked : p[1] = i)[2]] \o <<>>)

\* The number of times term occurs among the terms of a document.
Occurrences(terms, term) == Cardinality({i \in 1..Len(terms) : terms[i] = term})

\* The k terms of S with the highest corpus frequency tf (_limit_features);
\* among equal frequencies the alphabetically first.
TopTerms(S, tf, k) ==
  Let({<<tf[x], x>> : x \in S}, LAMBDA scored :
    {p[2] : p \in {q \in scored :
                     Cardinality({r \in scored :
                                    \/ r[1] > q[1]
                                    \/ r[1] = q[1] /\ LexLess(r[2], q[2])}) < k}})

\* A fit of a vectorizer made without max_features: every term is kept.
vectorizer_fit_unlimited(docs) ==
  Let(Concat(array([i \in 1..Len(docs) |-> analyze(docs[i])])), LAMBDA all :
  Let({all[i] : i \in 1..Len(all)}, LAMBDA terms :
    IF terms = {} THEN Raise("ValueError") ELSE Return(SortTerms(terms))))

\* TfidfVectorizer.fit(docs): the sorted vocabulary, or ValueError when no
\* term is left ("empty vocabulary; perhaps the documents only contain stop
\* words").
vectorizer_fit(docs) ==
  Let(Concat(array([i \in 1..Len(docs) |-> analyze(docs[i])])), LAMBDA all :
  Let({all[i] : i \in 1..Len(all)}, LAMBDA terms :
    IF terms = {} THEN Raise("ValueError")
    ELSE IF Cardinality(terms) > max_features
    THEN Return(SortTerms(TopTerms(terms, [x \in terms |-> Occurrences(all, x)],
                                   max_features)))
    ELSE Return(SortTerms(terms))))

\* A transform that does not check that the vectorizer is fitted.
vectorizer_transform_unchecked(vectorizer, doc) ==
  Let(analyze(doc), LAMBDA terms :
    Return(array([j \in 1..Len(vectorizer.vocabulary_) |->
                    Occurrences(terms, vectorizer.vocabulary_[j])])))

\* TfidfVectorizer.transform([doc]).toarray()[0]: the vectorizer needs its
\* vocabulary_ (fitted) and a fitted TfidfTransformer (idf_fitted).
vectorizer_transform(vectorizer, doc) ==
  IF ~vectorizer.fitted \/ ~vectorizer.idf_fitted THEN Raise("NotFittedError")
  ELSE Let(analyze(doc), LAMBDA terms :
         Return(array([j \in 1..Len(vectorizer.vocabulary_) |->
                         Occurrences(terms, vectorizer.vocabulary_[j])])))

(***************************************************************************)
(* The texts and the datasets of the model.                                *)
(***************************************************************************)

SampleTexts ==
  <<
    <<>>,
    <<"W","i","n"," ","c","a","s","h"," ","N","O","W","!">>,
    <<"<","p",">","F","r","e","e"," ","p","r","i","z","e","s","<","/","p",">">>,
    <<"T","h","a","n","k","s"," ","f","o","r"," ","t","h","e"," ","o","r","d","e","r",".">>,
    <<"I","t"," ","i","s"," ","o","n",".">>,
    <<"S","e","e"," ","h","t","t","p",":","/","/","a",".","i","o"," ","n","o","w","?">>,
    <<"M","a","i","l"," ","b","o","b","@","x",".","o","r","g"," ","c","a","s","h">>
  >>

Texts == {SampleTexts[i] : i \in 1..Len(SampleTexts)}

\* How many items the input stream of cli.py's interactive mode holds before
\* it is exhausted.
MaxInput == 3

quit == <<"q", "u", "i", "t">>

\* The lines typed as email content in interactive mode.
TypedLines == {<<"q", "u", "i", "t", "s">>, <<>>, SampleTexts[5]}

\* '\n'.join(lines)
RECURSIVE join_lines(_)
join_lines(lines) ==
  IF lines = <<>> THEN <<>>
  ELSE IF Len(lines) = 1 THEN lines[1]
  ELSE lines[1] \o <<"\n">> \o join_lines(Tail(lines))

RECURSIVE LineLists(_)
LineLists(n) ==
  IF n = 0 THEN {<<>>}
  ELSE LET shorter == LineLists(n - 1)
       IN  shorter \cup {Append(l, line) : l \in shorter, line \in TypedLines}

\* The email texts interactive mode can put together from its input.
TypedTexts == {join_lines(lines) : lines \in LineLists(MaxInput)}

\* The texts whose features are evaluated once.
MemoTexts == Texts \cup TypedTexts

\* preprocess_email over the model's texts, evaluated once.
Preprocessed == [t \in MemoTexts |-> preprocess_email(t)]

\* extract_basic_features over the model's texts, evaluated once.
BasicFeatures == [t \in MemoTexts |-> extract_basic_features(t)]

\* extract_advanced_features over the model's texts, evaluated once.
AdvancedFeatures == [t \in MemoTexts |-> extract_advanced_features(t)]

(***************************************************************************)
(* feature_extractor.py: the FeatureExtractor object.  Its state is the    *)
(* state of its TfidfVectorizer; tag is a history field that records which *)
(* call fit the state (run) on which rows of its dataset (rows), and no    *)
(* operation reads it.                                                     *)
(***************************************************************************)

NoTag == [run |-> 0, rows |-> {}]

\* FeatureExtractor.__init__
NewFeatureExtractor ==
  [fitted |-> FALSE, idf_fitted |-> FALSE, vocabulary_ |-> <<>>, tag |-> NoTag]

\* FeatureExtractor.fit_tfidf: the extractor after the call, or the exception.
fit_tfidf(self, email_texts) ==
  Let(array([i \in 1..Len(email_texts) |->
               IF email_texts[i] \in Texts THEN Preprocessed[email_texts[i]]
               ELSE preprocess_email(email_texts[i])]),
      LAMBDA processed_texts :
  Let(vectorizer_fit(processed_texts), LAMBDA fit :
    IF fit.exc # "none" THEN Raise(fit.exc)
    ELSE Return([self EXCEPT !.fitted = TRUE, !.idf_fitted = TRUE,
                             !.vocabulary_ = fit.val])))

\* The extractor after a fit_tfidf that raised.  TfidfVectorizer.fit raises
\* before it assigns vocabulary_; libraries that build the TfidfTransformer in
\* fit have by then replaced it with one that is not fitted, the others have
\* changed nothing.
after_failed_fit(self) == {self, [self EXCEPT !.idf_fitted = FALSE]}

\* An extract_tfidf_features that returns no tf-idf part for a text that
\* preprocessing leaves empty.
extract_tfidf_features_skip_empty(self, email_text) ==
  Let(Preprocessed[email_text], LAMBDA processed_text :
    IF processed_text = <<>> /\ self.fitted /\ self.idf_fitted THEN Return(<<>>)
    ELSE vectorizer_transform(self, processed_text))

\* FeatureExtractor.extract_tfidf_features
extract_tfidf_features(self, email_text) ==
  Let(IF email_text \in MemoTexts THEN Preprocessed[email_text]
      ELSE preprocess_email(email_text), LAMBDA processed_text :
    vectorizer_transform(self, processed_text))

\* An extract_all_features that takes its statistics from the sanitized text.
extract_all_features_of_cleaned(self, email_text) ==
  Let(extract_tfidf_features(self, email_text), LAMBDA tfidf_features :
    IF tfidf_features.exc # "none" THEN Raise(tfidf_features.exc)
    ELSE Return(extract_basic_features(Preprocessed[email_text])
                  \o extract_advanced_features(Preprocessed[email_text])
                  \o tfidf_features.val))

\* FeatureExtractor.extract_all_features
extract_all_features(self, email_text) ==
  Let(extract_tfidf_features(self, email_text), LAMBDA tfidf_features :
    IF tfidf_features.exc # "none" THEN Raise(tfidf_features.exc)
    ELSE IF email_text \in MemoTexts
    THEN Return(BasicFeatures[email_text] \o AdvancedFeatures[email_text]
                  \o tfidf_features.val)
    ELSE Return(extract_basic_features(email_text)
                  \o extract_advanced_features(email_text)
                  \o tfidf_features.val))

\* An extraction that fits the vectorizer again, on the text it is given
\* (fit_transform in the place of transform).
after_extract_refit(self, email_text) ==
  Let(fit_tfidf(self, <<email_text>>), LAMBDA fit :
    IF fit.exc # "none" THEN self ELSE fit.val)

\* The extractor after extract_tfidf_features or extract_all_features: the
\* methods assign no attribute, and TfidfVectorizer.transform leaves the
\* vectorizer as it is.
after_extract(self, email_text) == self

\* FeatureExtractor.get_feature_names; the name f'tfidf_{i}' is <<"tfidf", i>>.
get_feature_names(self) ==
  LET basic_names == << "text_length", "word_count", "char_count", "url_count",
                        "email_count", "suspicious_count", "uppercase_ratio",
                        "exclamation_count" >>
      advanced_names == << "avg_word_length", "sentence_count", "avg_sentence_length",
                           "question_count", "capital_count" >>
      tfidf_names == [i \in 1..Len(self.vocabulary_) |-> <<"tfidf", i - 1>>]
  IN  IF ~self.fitted THEN Raise("NotFittedError")
      ELSE Return(basic_names \o advanced_names \o tfidf_names)

(***************************************************************************)
(* The datasets: rows of (email_text, label), label 1 for phishing.        *)
(***************************************************************************)

Row(k, label) == [email_text |-> SampleTexts[k], label |-> label]

\* The datasets data/phishing_dataset.csv may hold in this model:
\*   1: six phishing and four legitimate rows;
\*   2: seven phishing and three legitimate rows, with a smaller vocabulary;
\*   3: one row of each class (too few rows to split);
\*   4: rows that clean to stop words only (no vocabulary).
Datasets ==
  << << Row(2, 1), Row(2, 1), Row(3, 1), Row(3, 1), Row(2, 1), Row(3, 1),
        Row(4, 0), Row(4, 0), Row(7, 0), Row(4, 0) >>,
     << Row(2, 1), Row(2, 1), Row(2, 1), Row(2, 1), Row(2, 1), Row(2, 1), Row(2, 1),
        Row(4, 0), Row(4, 0), Row(4, 0) >>,
     << Row(2, 1), Row(4, 0) >>,
     << Row(5, 0), Row(6, 1), Row(5, 0), Row(1, 1) >> >>

DatasetIds == 1..Len(Datasets)

\* dataset['email_text'].tolist()
email_texts_of(d) == array([i \in 1..Len(Datasets[d]) |-> Datasets[d][i].email_text])

\* dataset['label'].values
labels_of(d) == array([i \in 1..Len(Datasets[d]) |-> Datasets[d][i].label])

(***************************************************************************)
(* sklearn as model_trainer.py uses it: the stratified split, the          *)
(* StandardScaler and the classifier.                                      *)
(***************************************************************************)

\* Python's None.
None == [none |-> TRUE]

RECURSIVE SumOver(_, _)
\* The sum of f over the finite set S.
SumOver(f, S) ==
  IF S = {} THEN 0
  ELSE LET c == CHOOSE c \in S : TRUE IN f[c] + SumOver(f, S \ {c})

\* np.unique(y)
classes_of(y) == {y[i] : i \in 1..Len(y)}

\* The positions of class c in y, in order.
members(y, c) == SelectSeq([i \in 1..Len(y) |-> i], LAMBDA i : y[i] = c)

class_counts(y) == [c \in classes_of(y) |-> Len(members(y, c))]

\* sklearn's _approximate_mode: n_draws shared out over the classes in
\* proportion to counts, the remainder going to the largest fractional parts.
\* (Equal fractional parts are served by the seeded generator; the model
\* serves the lower label first.)
approximate_mode(counts, n_draws) ==
  Let(SumOver(counts, DOMAIN counts), LAMBDA total :
  Let([c \in DOMAIN counts |-> [floored |-> (n_draws * counts[c]) \div total,
                                remainder |-> (n_draws * counts[c]) % total]],
      LAMBDA share :
  Let(n_draws - SumOver([c \in DOMAIN counts |-> share[c].floored], DOMAIN counts),
      LAMBDA need_to_add :
    [c \in DOMAIN counts |->
       share[c].floored +
       (IF Cardinality({b \in DOMAIN counts :
                          \/ share[b].remainder > share[c].remainder
                          \/ share[b].remainder = share[c].remainder /\ b < c})
             < need_to_add
        THEN 1 ELSE 0)])))

\* train_test_split(X, y, test_size=0.2, random_state=42, stratify=y): the
\* positions of the training and of the test rows, or ValueError.  The seed
\* fixes the shuffle; the model takes each class's rows in their order, the
\* training rows first.
train_test_split(y) ==
  Let(class_counts(y), LAMBDA counts :
  Let((Len(y) * 2 + 9) \div 10, LAMBDA n_test :
  Let(Len(y) - n_test, LAMBDA n_train :
    IF Len(y) = 0 \/ n_train = 0 THEN Raise("ValueError")
    ELSE IF \E c \in DOMAIN counts : counts[c] < 2 THEN Raise("ValueError")
    ELSE IF n_train < Cardinality(DOMAIN counts) \/ n_test < Cardinality(DOMAIN counts)
    THEN Raise("ValueError")
    ELSE
  Let(approximate_mode(counts, n_train), LAMBDA n_i :
  Let(approximate_mode([c \in DOMAIN counts |-> counts[c] - n_i[c]], n_test), LAMBDA t_i :
    Return([train |-> UNION {{members(y, c)[k] : k \in 1..n_i[c]} : c \in DOMAIN counts},
            test |-> UNION {{members(y, c)[k] : k \in (n_i[c] + 1)..(n_i[c] + t_i[c])} :
                              c \in DOMAIN counts}]))))))

\* The rows of a matrix or the entries of a vector at the positions in S, in order.
take(seq, S) ==
  Let(SelectSeq(array([i \in 1..Len(seq) |-> i]), LAMBDA i : i \in S), LAMBDA idx :
    array([k \in 1..Len(idx) |-> seq[idx[k]]]))

\* StandardScaler()
NewStandardScaler ==
  [fitted |-> FALSE, n_features_in_ |-> 0, n_samples_seen_ |-> 0, sum_ |-> <<>>,
   tag |-> NoTag]

\* StandardScaler.fit(X) on a matrix with at least one row.  The fitted mean_
\* is sum_ / n_samples_seen_; scale_ is positive (sklearn replaces a zero
\* deviation by 1) and is not kept.
scaler_fit(self, X) ==
  [self EXCEPT !.fitted = TRUE,
               !.n_features_in_ = Len(X[1]),
               !.n_samples_seen_ = Len(X),
               !.sum_ = array([j \in 1..Len(X[1]) |->
                                 SumSeq(array([i \in 1..Len(X) |-> X[i][j]]))])]

\* StandardScaler.transform on one row x.  The scaled value (x - mean_) /
\* scale_ is modelled by n_samples_seen_ * (x - mean_), a positive multiple
\* of it.
scaler_transform(self, x) ==
  IF ~self.fitted THEN Raise("NotFittedError")
  ELSE IF Len(x) # self.n_features_in_ THEN Raise("ValueError")
  ELSE Return(array([j \in 1..Len(x) |-> self.n_samples_seen_ * x[j] - self.sum_[j]]))

\* RandomForestClassifier(n_estimators=100, ...)
n_estimators == 100

\* What a fit learns.  The fitted parameters are the library's and, with
\* random_state=42, the same for the same rows; the model has one decision
\* rule per estimator class: of the n_estimators votes, lo are for phishing
\* when the scaled feature at position col is at most 0, and hi when it is
\* above.
learned_rule(estimator) ==
  IF estimator = "RandomForestClassifier" THEN [col |-> 6, lo |-> 10, hi |-> 90]
  ELSE [col |-> 2, lo |-> 50, hi |-> 50]

\* RandomForestClassifier(...) or LogisticRegression(...), not yet fit.
new_estimator(model_type) ==
  [estimator |-> IF model_type = "random_forest" THEN "RandomForestClassifier"
                 ELSE "LogisticRegression",
   fitted |-> FALSE, n_features_in_ |-> 0, classes_ |-> <<>>,
   rule |-> [col |-> 0, lo |-> 0, hi |-> 0], tag |-> NoTag]

\* estimator.fit(X, y).  LogisticRegression needs two classes.
estimator_fit(self, X, y) ==
  IF self.estimator = "LogisticRegression" /\ Cardinality(classes_of(y)) < 2
  THEN Raise("ValueError")
  ELSE Return([self EXCEPT !.fitted = TRUE,
                           !.n_features_in_ = Len(X[1]),
                           !.classes_ = SelectSeq(<<0, 1>>, LAMBDA c : c \in classes_of(y)),
                           !.rule = learned_rule(self.estimator)])

\* A predict_proba that returns the votes for phishing against the votes for
\* legitimate (a score, not a distribution).
predict_proba_margin(self, x) ==
  IF ~self.fitted THEN Raise("NotFittedError")
  ELSE IF Len(x) # self.n_features_in_ THEN Raise("ValueError")
  ELSE IF Len(self.classes_) = 1 THEN Return(<<n_estimators>>)
  ELSE LET k == IF x[self.rule.col] > 0 THEN self.rule.hi ELSE self.rule.lo
       IN  Return(<<n_estimators - 2 * k, 2 * k - n_estimators>>)

\* estimator.predict_proba on one scaled row x: per class of classes_, the
\* share of the n_estimators votes (a probability in hundredths).
predict_proba(self, x) ==
  IF ~self.fitted THEN Raise("NotFittedError")
  ELSE IF Len(x) # self.n_features_in_ THEN Raise("ValueError")
  ELSE IF Len(self.classes_) = 1 THEN Return(<<n_estimators>>)
  ELSE LET k == IF x[self.rule.col] > 0 THEN self.rule.hi ELSE self.rule.lo
       IN  Return(<<n_estimators - k, k>>)

\* estimator.predict on one scaled row x: the class of the highest
\* probability, the first of them when two are equal.
predict(self, x) ==
  Let(predict_proba(self, x), LAMBDA p :
    IF p.exc # "none" THEN p
    ELSE Return(self.classes_[
           CHOOSE i \in 1..Len(p.val) :
             \A j \in 1..Len(p.val) :
                p.val[i] > p.val[j] \/ (p.val[i] = p.val[j] /\ i <= j)]))

\* cross_val_score(model, X, y, cv=5): StratifiedKFold(5) refuses fewer rows
\* than folds, and classes that all have fewer members than folds.
cv == 5

cross_val_raises(y) ==
  \/ cv > Len(y)
  \/ \A c \in classes_of(y) : cv > class_counts(y)[c]

(***************************************************************************)
(* model_trainer.py: PhishingModelTrainer.                                 *)
(***************************************************************************)

\* PhishingModelTrainer.__init__
NewTrainer ==
  [feature_extractor |-> NewFeatureExtractor, scaler |-> NewStandardScaler, model |-> None]

\* The outcome of a trainer method: the trainer as the method's statements
\* left it, the exception raised ("none" for a return), the value returned
\* and the statement the method ended at.
Outcome(self, exc, val, at) == [self |-> self, exc |-> exc, val |-> val, at |-> at]

\* PhishingModelTrainer.extract_features: the feature matrix, or the exception
\* fit_tfidf raised.
extract_features(self, emails) ==
  Let(fit_tfidf(self.feature_extractor, emails), LAMBDA fit :
    IF fit.exc # "none" THEN Outcome(self, fit.exc, <<>>, "fit_tfidf")
    ELSE Outcome([self EXCEPT !.feature_extractor =
                    [fit.val EXCEPT !.tag = [run |-> 0, rows |-> 1..Len(emails)]]],
                 "none",
                 array([i \in 1..Len(emails) |->
                          extract_all_features(fit.val, emails[i]).val]),
                 "return"))

\* PhishingModelTrainer.train_model, with whether the directory static/
\* exists: the accuracy, or the exception of the first statement that raised.
train_model(self, X, y, model_type, static_dir) ==
  Let(train_test_split(y), LAMBDA parts :
    IF parts.exc # "none" THEN Outcome(self, parts.exc, <<>>, "train_test_split")
    ELSE
  Let(take(X, parts.val.train), LAMBDA X_train :
  Let(take(X, parts.val.test), LAMBDA X_test :
  Let(take(y, parts.val.train), LAMBDA y_train :
  Let(take(y, parts.val.test), LAMBDA y_test :
  Let([scaler_fit(self.scaler, X_train)
         EXCEPT !.tag = [run |-> 0, rows |-> parts.val.train]], LAMBDA scaler :
  Let(array([i \in 1..Len(X_train) |-> scaler_transform(scaler, X_train[i]).val]),
      LAMBDA X_train_scaled :
  Let(array([i \in 1..Len(X_test) |-> scaler_transform(scaler, X_test[i]).val]),
      LAMBDA X_test_scaled :
  Let([self EXCEPT !.scaler = scaler, !.model = new_estimator(model_type)],
      LAMBDA self1 :
  Let(estimator_fit(self1.model, X_train_scaled, y_train), LAMBDA fit :
    IF fit.exc # "none" THEN Outcome(self1, fit.exc, <<>>, "fit")
    ELSE
  Let([self1 EXCEPT !.model =
         [fit.val EXCEPT !.tag = [run |-> 0, rows |-> parts.val.train]]],
      LAMBDA self2 :
  Let(array([i \in 1..Len(X_test_scaled) |-> predict(fit.val, X_test_scaled[i]).val]),
      LAMBDA y_pred :
    IF cross_val_raises(y_train)
    THEN Outcome(self2, "ValueError", <<>>, "cross_val_score")
    \* classification_report(..., target_names=['Legitimate', 'Phishing'])
    ELSE IF Cardinality(classes_of(y_test) \cup classes_of(y_pred)) # 2
    THEN Outcome(self2, "ValueError", <<>>, "classification_report")
    \* plt.savefig('static/confusion_matrix.png', ...)
    ELSE IF ~static_dir THEN Outcome(self2, "FileNotFoundError", <<>>, "savefig")
    ELSE Outcome(self2, "none",
                 Ratio(Cardinality({i \in 1..Len(y_test) : y_test[i] = y_pred[i]}),
                       Len(y_test)),
                 "return")))))))))))))

\* A train_and_save that goes on to save_model whether or not
\* extract_features or train_model raised.
train_and_save_then_save(self, dataset, model_type, static_dir) ==
  Let(extract_features(self, array([i \in 1..Len(dataset) |-> dataset[i].email_text])),
      LAMBDA X :
    IF X.exc # "none" THEN [X EXCEPT !.exc = "none"]
    ELSE [train_model(X.self, X.val,
                      array([i \in 1..Len(dataset) |-> dataset[i].label]),
                      model_type, static_dir) EXCEPT !.exc = "none"])

\* PhishingModelTrainer.train_and_save up to its call of save_model, with the
\* dataset load_data returns: extract_features, then train_model.
train_and_save(self, dataset, model_type, static_dir) ==
  Let(extract_features(self, array([i \in 1..Len(dataset) |-> dataset[i].email_text])),
      LAMBDA X :
    IF X.exc # "none" THEN X
    ELSE train_model(X.self, X.val, array([i \in 1..Len(dataset) |-> dataset[i].label]),
                     model_type, static_dir))

(***************************************************************************)
(* joblib and the three model files.  A file is absent, open for writing   *)
(* and not yet complete ("partial"), or holds the pickle of an object.     *)
(***************************************************************************)

model_path == "models/phishing_model.pkl"

feature_extractor_path == "models/feature_extractor.pkl"

scaler_path == "models/scaler.pkl"

Paths == {model_path, feature_extractor_path, scaler_path}

\* A pickle that keeps the constructor's arguments and not what fit learned.
pickled_unfitted(obj) ==
  [state |-> "complete", pickle |-> IF obj = None THEN obj ELSE [obj EXCEPT !.fitted = FALSE]]

\* pickle keeps an object's attributes as they are.
pickled(obj) == [state |-> "complete", pickle |-> obj]

\* A file that does not exist, and one opened for writing and not yet written.
absent == [state |-> "absent"]

partial == [state |-> "partial"]

\* joblib.dump(obj, path), first half: open(path, 'wb') truncates the file.
dump_open(fs, path) == [fs EXCEPT ![path] = partial]

\* joblib.dump(obj, path), second half: the pickle is written and the file closed.
dump_write(fs, path, obj) == [fs EXCEPT ![path] = pickled(obj)]

\* joblib.load(path)
joblib_load(fs, path) ==
  IF fs[path].state = "absent" THEN Raise("FileNotFoundError")
  ELSE IF fs[path].state = "partial" THEN Raise("EOFError")
  ELSE Return(fs[path].pickle)

(***************************************************************************)
(* app.py and cli.py: classifying one text with three components.          *)
(***************************************************************************)

\* bool(obj) as all([...]) takes it.  None is false; a RandomForestClassifier
\* has __len__, the number of its fitted trees, which an unfitted forest
\* cannot give; every other object is true.
truth(obj) ==
  IF obj = None THEN Return(FALSE)
  ELSE IF "estimator" \in DOMAIN obj /\ obj.estimator = "RandomForestClassifier"
  THEN IF obj.fitted THEN Return(n_estimators > 0) ELSE Raise("AttributeError")
  ELSE Return(TRUE)

\* all([model, feature_extractor, scaler])
all_of(model, feature_extractor, scaler) ==
  Let(truth(model), LAMBDA m :
    IF m.exc # "none" \/ ~m.val THEN m
    ELSE Let(truth(feature_extractor), LAMBDA f :
           IF f.exc # "none" \/ ~f.val THEN f ELSE truth(scaler)))

\* A dict that takes the label 0 for phishing.
result_dict_swapped(prediction, confidence_phishing, confidence_legitimate) ==
  [prediction |-> IF prediction = 0 THEN "Phishing" ELSE "Legitimate",
   confidence_phishing |-> confidence_phishing,
   confidence_legitimate |-> confidence_legitimate,
   is_phishing |-> prediction = 0]

\* The dict both programs build from model.predict and model.predict_proba.
result_dict(prediction, confidence_phishing, confidence_legitimate) ==
  [prediction |-> IF prediction = 1 THEN "Phishing" ELSE "Legitimate",
   confidence_phishing |-> confidence_phishing,
   confidence_legitimate |-> confidence_legitimate,
   is_phishing |-> prediction = 1]

\* A message f"{text}: {exception}", and a message without exception.
Message(text, exc) == [text |-> text, exception |-> exc]

\* app.py predict_phishing, on the globals as they are when it is called: the
\* tuple it returns, of three entries when the model is not loaded.  An
\* exception of all([...]) is outside the try and leaves the function.
predict_phishing(model, feature_extractor, scaler, email_text) ==
  Let(all_of(model, feature_extractor, scaler), LAMBDA loaded :
    IF loaded.exc # "none" THEN Raise(loaded.exc)
    ELSE IF ~loaded.val THEN Return(<<None, None, Message("Model not loaded", "")>>)
    ELSE
  Let(extract_all_features(feature_extractor, email_text), LAMBDA features :
    IF features.exc # "none"
    THEN Return(<<None, Message("Error during prediction", features.exc)>>)
    ELSE
  Let(scaler_transform(scaler, features.val), LAMBDA features_scaled :
    IF features_scaled.exc # "none"
    THEN Return(<<None, Message("Error during prediction", features_scaled.exc)>>)
    ELSE
  Let(predict(model, features_scaled.val), LAMBDA prediction :
    IF prediction.exc # "none"
    THEN Return(<<None, Message("Error during prediction", prediction.exc)>>)
    ELSE
  Let(predict_proba(model, features_scaled.val), LAMBDA probability :
    IF Len(probability.val) < 2
    THEN Return(<<None, Message("Error during prediction", "IndexError")>>)
    ELSE Return(<<result_dict(prediction.val, probability.val[2], probability.val[1]),
                  None>>))))))

\* A predict_email that reads the two probabilities in the other order.
predict_email_by_index(email_text, model, feature_extractor, scaler) ==
  IF feature_extractor = None THEN None
  ELSE
  Let(extract_all_features(feature_extractor, email_text), LAMBDA features :
    IF features.exc # "none" \/ scaler = None THEN None
    ELSE
  Let(scaler_transform(scaler, features.val), LAMBDA features_scaled :
    IF features_scaled.exc # "none" \/ model = None THEN None
    ELSE
  Let(predict(model, features_scaled.val), LAMBDA prediction :
    IF prediction.exc # "none" THEN None
    ELSE
  Let(predict_proba(model, features_scaled.val), LAMBDA probability :
    IF Len(probability.val) < 2 THEN None
    ELSE result_dict(prediction.val, probability.val[1], probability.val[2])))))

\* cli.py predict_email: the dict, or None after it printed the exception.
\* A component that is None has none of the methods (AttributeError).
predict_email(email_text, model, feature_extractor, scaler) ==
  IF feature_extractor = None THEN None
  ELSE
  Let(extract_all_features(feature_extractor, email_text), LAMBDA features :
    IF features.exc # "none" \/ scaler = None THEN None
    ELSE
  Let(scaler_transform(scaler, features.val), LAMBDA features_scaled :
    IF features_scaled.exc # "none" \/ model = None THEN None
    ELSE
  Let(predict(model, features_scaled.val), LAMBDA prediction :
    IF prediction.exc # "none" THEN None
    ELSE
  Let(predict_proba(model, features_scaled.val), LAMBDA probability :
    IF Len(probability.val) < 2 THEN None
    ELSE result_dict(prediction.val, probability.val[2], probability.val[1])))))

(***************************************************************************)
(* app.py: the routes /predict and /health.                                *)
(***************************************************************************)

\* str.strip()
strip(text) ==
  LET black == {i \in 1..Len(text) : ~isspace(text[i])}
  IN  IF black = {} THEN <<>>
      ELSE SubSeq(text, CHOOSE i \in black : \A j \in black : i <= j,
                        CHOOSE i \in black : \A j \in black : i >= j)

\* A JSON value under the key email_text: a string, a number, null, or no
\* such key.
JsonValue(type, value) == [type |-> type, value |-> value]

\* The body of a POST: text that is not JSON, a JSON array, or a JSON object.
InvalidJson == [kind |-> "invalid", email_text |-> JsonValue("missing", <<>>)]

JsonArray == [kind |-> "array", email_text |-> JsonValue("missing", <<>>)]

JsonObject(email_text) == [kind |-> "object", email_text |-> email_text]

\* What a route returns: jsonify(json) with an HTTP status.  History: called
\* tells whether the route called predict_phishing.
HttpResponse(status, json, called) == [status |-> status, json |-> json, called |-> called]

\* generate_wordcloud(text, title): the image as a base64 string, or None when
\* WordCloud or matplotlib raised.
generate_wordcloud(text) == {[image_base64 |-> TRUE], None}

\* The route's `except Exception as e`: 'Server error: {e}' with status 500.
server_error(exc, called) == HttpResponse(500, [error |-> Message("Server error", exc)], called)

\* A route without `if not email_text: return ..., 400`.
predict_route_unchecked(model, feature_extractor, scaler, body, wordcloud) ==
  IF body.kind = "invalid" THEN server_error("BadRequest", FALSE)
  ELSE IF body.kind # "object" \/ body.email_text.type \in {"null", "number"}
  THEN server_error("AttributeError", FALSE)
  ELSE
  Let(predict_phishing(model, feature_extractor, scaler, strip(body.email_text.value)),
      LAMBDA returned :
    IF returned.exc # "none" THEN server_error(returned.exc, TRUE)
    ELSE IF Len(returned.val) # 2 THEN server_error("ValueError", TRUE)
    ELSE IF returned.val[2] # None
    THEN HttpResponse(500, [error |-> returned.val[2]], TRUE)
    ELSE HttpResponse(200, [prediction |-> returned.val[1].prediction,
                            confidence_phishing |-> returned.val[1].confidence_phishing,
                            confidence_legitimate |-> returned.val[1].confidence_legitimate,
                            is_phishing |-> returned.val[1].is_phishing,
                            wordcloud |-> wordcloud], TRUE))

\* app.py predict, the route POST /predict, on the globals as they are.
\* request.get_json() raises BadRequest on a body that is not JSON; a JSON
\* value without get, or an email_text without strip, raises AttributeError;
\* `result, error = predict_phishing(...)` raises ValueError on the three
\* entries of 'Model not loaded'.  All of them end in `except Exception`.
predict_route(model, feature_extractor, scaler, body, wordcloud) ==
  IF body.kind = "invalid" THEN server_error("BadRequest", FALSE)
  ELSE IF body.kind # "object" \/ body.email_text.type \in {"null", "number"}
  THEN server_error("AttributeError", FALSE)
  ELSE IF strip(body.email_text.value) = <<>>
  THEN HttpResponse(400, [error |-> Message("Email text is required", "")], FALSE)
  ELSE
  Let(predict_phishing(model, feature_extractor, scaler, strip(body.email_text.value)),
      LAMBDA returned :
    IF returned.exc # "none" THEN server_error(returned.exc, TRUE)
    ELSE IF Len(returned.val) # 2 THEN server_error("ValueError", TRUE)
    ELSE IF returned.val[2] # None
    THEN HttpResponse(500, [error |-> returned.val[2]], TRUE)
    ELSE HttpResponse(200, [prediction |-> returned.val[1].prediction,
                            confidence_phishing |-> returned.val[1].confidence_phishing,
                            confidence_legitimate |-> returned.val[1].confidence_legitimate,
                            is_phishing |-> returned.val[1].is_phishing,
                            wordcloud |-> wordcloud], TRUE))

\* A health that looks at the model only.
health_of_model(model, feature_extractor, scaler) ==
  Let(truth(model), LAMBDA loaded :
    IF loaded.exc # "none"
    THEN HttpResponse(500, [error |-> Message("Internal Server Error", loaded.exc)], FALSE)
    ELSE HttpResponse(200, [status |-> "healthy",
                            model_status |-> IF loaded.val THEN "loaded" ELSE "not loaded"],
                      FALSE))

\* app.py health, the route GET /health.  An exception of all([...]) leaves
\* the route and Flask answers 500.
health(model, feature_extractor, scaler) ==
  Let(all_of(model, feature_extractor, scaler), LAMBDA loaded :
    IF loaded.exc # "none"
    THEN HttpResponse(500, [error |-> Message("Internal Server Error", loaded.exc)], FALSE)
    ELSE HttpResponse(200, [status |-> "healthy",
                            model_status |-> IF loaded.val THEN "loaded" ELSE "not loaded"],
                      FALSE))

(***************************************************************************)
(* calculator.py: the Calculator.  A float is the fraction n / d in lowest *)
(* terms with d > 0 (the sign of a zero is not kept); a result that        *)
(* calculate returns as an int has d = 1.                                  *)
(***************************************************************************)

RECURSIVE gcd(_, _)
gcd(a, b) == IF b = 0 THEN a ELSE gcd(b, a % b)

abs(x) == IF x < 0 THEN 0 - x ELSE x

\* The float n / d.
Float(n, d) ==
  LET g == gcd(abs(n), abs(d))
  IN  [n |-> (IF d < 0 THEN 0 - n ELSE n) \div g, d |-> abs(d) \div g]

RECURSIVE pow(_, _)
pow(b, e) == IF e = 0 THEN 1 ELSE b * pow(b, e - 1)

\* -?\d*\.?\d+ : an optional sign, digits with at most one '.', a digit last.
is_number(str) ==
  LET body == IF str # <<>> /\ Head(str) = "-" THEN Tail(str) ELSE str
  IN  /\ body # <<>>
      /\ \A i \in 1..Len(body) : isdigit(body[i]) \/ body[i] = "."
      /\ Cardinality({i \in 1..Len(body) : body[i] = "."}) <= 1
      /\ isdigit(body[Len(body)])

RECURSIVE digits_value(_)
\* int(digits), 0 for no digit.
digits_value(digits) ==
  IF digits = <<>> THEN 0
  ELSE 10 * digits_value(SubSeq(digits, 1, Len(digits) - 1))
         + (ord(digits[Len(digits)]) - 48)

\* float(str) for a str that is_number.
float(str) ==
  LET negative == Head(str) = "-"
      body == IF negative THEN Tail(str) ELSE str
      digits == SelectSeq(body, isdigit)
      dots == {i \in 1..Len(body) : body[i] = "."}
      places == IF dots = {} THEN 0 ELSE Len(body) - (CHOOSE i \in dots : TRUE)
      n == digits_value(digits)
  IN  Float(IF negative THEN 0 - n ELSE n, pow(10, places))

\* The operators of expression_pattern: [\+\-\*/\^] | \*\*
operators == {<<"+">>, <<"-">>, <<"*">>, <<"/">>, <<"^">>, <<"*", "*">>}

\* expression_pattern without its final $: the second operand may end
\* before the expression does.
matches_unanchored(expression) ==
  LET n == Len(expression)
      firsts == {i \in 1..n : is_number(SubSeq(expression, 1, i))}
      lasts == {l \in 1..n : \E e \in l..n : is_number(SubSeq(expression, l, e))}
      between == {o \in (1..n) \X (1..n) :
                    SubSeq(expression, o[1], o[2]) \in operators}
  IN  {m \in {[i |-> i, j |-> o[1], k |-> o[2], l |-> l] :
                i \in firsts, o \in between, l \in lasts} :
         /\ m.i < m.j /\ m.k < m.l
         /\ \A x \in (m.i + 1)..(m.j - 1) : isspace(expression[x])
         /\ \A x \in (m.k + 1)..(m.l - 1) : isspace(expression[x])}

\* The ways expression_pattern matches expression: operand, whitespace,
\* operator, whitespace, operand, from the first character to the last.
matches(expression) ==
  LET n == Len(expression)
      firsts == {i \in 1..n : is_number(SubSeq(expression, 1, i))}
      lasts == {l \in 1..n : is_number(SubSeq(expression, l, n))}
      between == {o \in (1..n) \X (1..n) :
                    SubSeq(expression, o[1], o[2]) \in operators}
  IN  {m \in {[i |-> i, j |-> o[1], k |-> o[2], l |-> l] :
                i \in firsts, o \in between, l \in lasts} :
         /\ m.i < m.j /\ m.k < m.l
         /\ \A x \in (m.i + 1)..(m.j - 1) : isspace(expression[x])
         /\ \A x \in (m.k + 1)..(m.l - 1) : isspace(expression[x])}

\* Calculator.parse_expression: <<operand1, operator, operand2>>, or ValueError.
parse_expression(expression) ==
  Let(strip(expression), LAMBDA stripped :
  Let(matches(stripped), LAMBDA found :
    IF found = {} THEN Raise("ValueError")
    ELSE LET m == CHOOSE m \in found : TRUE
         IN  Return(<<float(SubSeq(stripped, 1, m.i)),
                      SubSeq(stripped, m.j, m.k),
                      float(SubSeq(stripped, m.l, Len(stripped)))>>)))

\* Calculator.add
add(a, b) == Return(Float(a.n * b.d + b.n * a.d, a.d * b.d))

\* Calculator.subtract
subtract(a, b) == Return(Float(a.n * b.d - b.n * a.d, a.d * b.d))

\* Calculator.multiply
multiply(a, b) == Return(Float(a.n * b.n, a.d * b.d))

\* A divide that follows IEEE 754 arithmetic: a zero divisor gives an
\* infinity or a NaN, the float a.n / 0, and nothing is raised.
divide_ieee(a, b) ==
  IF b.n = 0 THEN Return([n |-> a.n, d |-> 0])
  ELSE Return(Float(a.n * b.d, a.d * b.n))

\* Calculator.divide
divide(a, b) ==
  IF b.n = 0 THEN Raise("ZeroDivisionError")
  ELSE Return(Float(a.n * b.d, a.d * b.n))

RECURSIVE ilog10(_)
\* The number of digits of x after the first.
ilog10(x) == IF x < 10 THEN 0 ELSE 1 + ilog10(x \div 10)

\* The float a ** b where the model does not compute its value: for an
\* exponent with a fraction (a complex number when a < 0), and for a result
\* of more than nine digits.
Power(a, b) == [base |-> a, exponent |-> b]

\* Calculator.power.  0.0 ** b raises ZeroDivisionError for b < 0; float
\* pow raises OverflowError for a result beyond the floats, which is here a
\* result of at least 10 ** 309.
power(a, b) ==
  LET k == abs(b.n)
      base == IF b.n < 0 THEN [n |-> abs(a.d), d |-> abs(a.n)]
              ELSE [n |-> abs(a.n), d |-> a.d]
      sign == IF a.n < 0 /\ k % 2 = 1 THEN 0 - 1 ELSE 1
  IN  IF a.n = 0 /\ b.n < 0 THEN Raise("ZeroDivisionError")
      ELSE IF a.n = 0 /\ b.n > 0 THEN Return(Float(0, 1))
      ELSE IF b.d # 1 THEN Return(Power(a, b))
      ELSE IF k * ilog10(base.n \div base.d) > 308 THEN Raise("OverflowError")
      ELSE IF /\ k * (ilog10(base.n) + 1) <= 9
              /\ k * (ilog10(base.d) + 1) <= 9
           THEN Return(Float(sign * pow(base.n, k), pow(base.d, k)))
      ELSE Return(Power(a, b))

\* Calculator.__init__: self.operations, the method of each operator.
operations ==
  [o \in operators |->
     IF o = <<"+">> THEN "add"
     ELSE IF o = <<"-">> THEN "subtract"
     ELSE IF o = <<"*">> THEN "multiply"
     ELSE IF o = <<"/">> THEN "divide"
     ELSE "power"]

\* An evaluation that gives the minus sign of the first operand a lower
\* precedence than the power, as a Python expression does: -a ** b is
\* -(a ** b).
operation_sign_last(method, a, b) ==
  LET positive == power([n |-> abs(a.n), d |-> a.d], b)
  IN  IF method = "add" THEN add(a, b)
      ELSE IF method = "subtract" THEN subtract(a, b)
      ELSE IF method = "multiply" THEN multiply(a, b)
      ELSE IF method = "divide" THEN divide(a, b)
      ELSE IF a.n < 0 /\ positive.exc = "none" /\ "n" \in DOMAIN positive.val
        THEN Return(Float(0 - positive.val.n, positive.val.d))
      ELSE power(a, b)

\* self.operations[operator](operand1, operand2)
operation(method, a, b) ==
  IF method = "add" THEN add(a, b)
  ELSE IF method = "subtract" THEN subtract(a, b)
  ELSE IF method = "multiply" THEN multiply(a, b)
  ELSE IF method = "divide" THEN divide(a, b)
  ELSE power(a, b)

\* The call of an arithmetic method that calculate(expression) makes, or
\* None when it makes none.
performed(expression) ==
  Let(parse_expression(expression), LAMBDA parsed :
    IF parsed.exc # "none" \/ parsed.val[2] \notin DOMAIN operations THEN None
    ELSE [op |-> operations[parsed.val[2]],
          arg |-> <<parsed.val[1], parsed.val[3]>>,
          res |-> operation(operations[parsed.val[2]], parsed.val[1],
                            parsed.val[3])])

\* Calculator.calculate: the result, an int when it is whole, or the
\* exception.
calculate(expression) ==
  Let(parse_expression(expression), LAMBDA parsed :
    IF parsed.exc # "none" THEN parsed
    ELSE IF parsed.val[2] \notin DOMAIN operations THEN Raise("ValueError")
    ELSE operation(operations[parsed.val[2]], parsed.val[1], parsed.val[3]))

(***************************************************************************)
(* The state.                                                              *)
(***************************************************************************)
VARIABLES
  extractor,      \* a FeatureExtractor used through its own methods
  last_call,      \* the last call on extractor: its name, argument and outcome
  trainer,        \* the PhishingModelTrainer of the training program
  script,         \* the X and y the training program holds (extract_features' return)
  trainer_call,   \* the trainer's call in progress or last ended, and its outcome
  runs,           \* the number of fitting calls begun
  files,          \* the files of models/
  saved,          \* history: the trainer's components at the last completed save_model
  reader,         \* a serving process, app.py or cli.py: its three components
  response,       \* the last classification a serving process returned
  requests,       \* the requests in progress in the web process
  first_features  \* history: per text, the first vector extract_all_features returned

fe_vars == <<extractor, last_call>>

trainer_vars == <<trainer, script, trainer_call, runs, files, saved>>

serving_vars == <<requests, first_features>>

vars == <<extractor, last_call, trainer, script, trainer_call, runs, files, saved,
          reader, response, requests, first_features>>

\* The texts sent for classification.
ProbeTexts == {SampleTexts[1], SampleTexts[2], SampleTexts[4]}

\* How many fitting calls the training program makes.
MaxRuns == 2

\* How many requests the web process serves at a time.
MaxReq == 2

Call(op, arg, res) == [op |-> op, arg |-> arg, res |-> res]

\* A serving process that is not running.
NoReader ==
  [prog |-> "none", pc |-> 0, model |-> None, feature_extractor |-> None,
   scaler |-> None, returned |-> "none", clean |-> FALSE]

\* A request slot that is free.
NoRequest ==
  [pc |-> "free", email_text |-> <<>>, features |-> Return(<<>>), features_scaled |-> <<>>,
   prediction |-> 0, returned |-> Return(None)]

InitExtractor ==
  /\ extractor = NewFeatureExtractor
  /\ last_call = Call("__init__", <<>>, Return(<<>>))

InitTrainer ==
  /\ trainer = NewTrainer
  /\ script = [X |-> <<>>, y |-> <<>>]
  /\ trainer_call = [op |-> "__init__", pc |-> 0, at |-> "return", res |-> Return(<<>>)]
  /\ runs = 0
  /\ files = [p \in Paths |-> absent]
  /\ saved = None

InitServing ==
  /\ requests = [i \in 1..MaxReq |-> NoRequest]
  /\ first_features = [t \in ProbeTexts |-> None]

(***************************************************************************)
(* The FeatureExtractor's methods, called on one extractor in any order.   *)
(***************************************************************************)

\* The lists of texts fit_tfidf is called with.
Corpora == {email_texts_of(d) : d \in DatasetIds} \cup {<<t>> : t \in Texts}

InitFE ==
  /\ InitExtractor
  /\ InitTrainer
  /\ reader = NoReader
  /\ response = None
  /\ InitServing

call_fit_tfidf(email_texts) ==
  \E res \in {fit_tfidf(extractor, email_texts)} :
      /\ IF res.exc = "none" THEN extractor' = res.val
         ELSE extractor' \in after_failed_fit(extractor)
      /\ last_call' = Call("fit_tfidf", email_texts,
                           IF res.exc = "none" THEN Return(<<>>) ELSE res)
      /\ UNCHANGED <<trainer_vars, reader, response, serving_vars>>

call_extract_basic_features(email_text) ==
  /\ last_call' = Call("extract_basic_features", email_text,
                       Return(extract_basic_features(email_text)))
  /\ UNCHANGED <<extractor, trainer_vars, reader, response, serving_vars>>

call_extract_advanced_features(email_text) ==
  /\ last_call' = Call("extract_advanced_features", email_text,
                       Return(extract_advanced_features(email_text)))
  /\ UNCHANGED <<extractor, trainer_vars, reader, response, serving_vars>>

call_extract_tfidf_features(email_text) ==
  /\ last_call' = Call("extract_tfidf_features", email_text,
                       extract_tfidf_features(extractor, email_text))
  /\ extractor' = after_extract(extractor, email_text)
  /\ UNCHANGED <<trainer_vars, reader, response, serving_vars>>

call_extract_all_features(email_text) ==
  /\ last_call' = Call("extract_all_features", email_text,
                       extract_all_features(extractor, email_text))
  /\ extractor' = after_extract(extractor, email_text)
  /\ UNCHANGED <<trainer_vars, reader, response, serving_vars>>

call_get_feature_names ==
  /\ last_call' = Call("get_feature_names", <<>>, get_feature_names(extractor))
  /\ UNCHANGED <<extractor, trainer_vars, reader, response, serving_vars>>

NextFE ==
  \/ \E email_texts \in Corpora : call_fit_tfidf(email_texts)
  \/ \E email_text \in Texts : call_extract_basic_features(email_text)
  \/ \E email_text \in Texts : call_extract_advanced_features(email_text)
  \/ \E email_text \in Texts : call_extract_tfidf_features(email_text)
  \/ \E email_text \in Texts : call_extract_all_features(email_text)
  \/ call_get_feature_names

SpecFE == InitFE /\ [][NextFE]_vars

(***************************************************************************)
(* The EmailPreprocessor's methods, called on one input text.              *)
(***************************************************************************)

\* The characters the input texts are made of: markup, a reference, letters
\* of both cases, a digit, punctuation and whitespace.
TextAlphabet == {"<", ">", "&", "l", "t", ";", " ", "1", "T"}

\* The length of the longest input text.
MaxLen == 4

RECURSIVE StringsOf(_)
\* The strings of at most n characters of TextAlphabet.
StringsOf(n) ==
  IF n = 0 THEN {<<>>}
  ELSE LET shorter == StringsOf(n - 1)
       IN  shorter \cup {Append(s, c) : s \in {x \in shorter : Len(x) = n - 1},
                                        c \in TextAlphabet}

InputTexts == StringsOf(MaxLen) \cup Texts

InitText ==
  /\ extractor = NewFeatureExtractor
  /\ last_call \in {Call("text", t, Return(<<>>)) : t \in InputTexts}
  /\ InitTrainer
  /\ reader = NoReader
  /\ response = None
  /\ InitServing

\* preprocessor.remove_html_tags(text) on the input text.
call_remove_html_tags ==
  /\ last_call' = Call("remove_html_tags", last_call.arg,
                       Return(remove_html_tags(last_call.arg)))
  /\ UNCHANGED <<extractor, trainer_vars, reader, response, serving_vars>>

\* preprocessor.preprocess_email(email_text) on the input text.
call_preprocess_email ==
  /\ last_call' = Call("preprocess_email", last_call.arg,
                       Return(preprocess_email(last_call.arg)))
  /\ UNCHANGED <<extractor, trainer_vars, reader, response, serving_vars>>

NextText ==
  \/ call_remove_html_tags
  \/ call_preprocess_email

SpecText == InitText /\ [][NextText]_vars

(***************************************************************************)
(* extract_advanced_features, called on every text of at most MaxText      *)
(* characters of SentenceAlphabet: sentence marks, blanks and letters.     *)
(***************************************************************************)

SentenceAlphabet == {".", "!", "?", " ", "a", "B"}

\* The length of the longest of these texts.
MaxText == 4

RECURSIVE SentenceTexts(_)
\* The strings of at most n characters of SentenceAlphabet.
SentenceTexts(n) ==
  IF n = 0 THEN {<<>>}
  ELSE LET shorter == SentenceTexts(n - 1)
       IN  shorter \cup {Append(s, c) : s \in {x \in shorter : Len(x) = n - 1},
                                        c \in SentenceAlphabet}

InitSentences ==
  /\ extractor = NewFeatureExtractor
  /\ last_call \in {Call("text", t, Return(<<>>)) : t \in SentenceTexts(MaxText)}
  /\ InitTrainer
  /\ reader = NoReader
  /\ response = None
  /\ InitServing

\* extractor.extract_advanced_features(email_text) on the input text.
advanced_features_of_text ==
  /\ last_call' = Call("extract_advanced_features", last_call.arg,
                       Return(extract_advanced_features(last_call.arg)))
  /\ UNCHANGED <<extractor, trainer_vars, reader, response, serving_vars>>

\* extractor.extract_basic_features(email_text) on the input text.
basic_features_of_text ==
  /\ last_call' = Call("extract_basic_features", last_call.arg,
                       Return(extract_basic_features(last_call.arg)))
  /\ UNCHANGED <<extractor, trainer_vars, reader, response, serving_vars>>

NextSentences ==
  \/ advanced_features_of_text
  \/ basic_features_of_text

SpecSentences == InitSentences /\ [][NextSentences]_vars

(***************************************************************************)
(* One FeatureExtractor, fit on one corpus and then refit on another.  The *)
(* corpora are those of SpecFE and corpora of up to MaxDocs texts of eight *)
(* words each, in which no word and no pair of words occurs twice: 15      *)
(* terms a text, more than max_features terms from 67 texts on.            *)
(***************************************************************************)

consonants == <<"b", "c", "d", "f", "g", "h", "j", "k", "l", "m">>

\* The i-th word of three consonants: no stop word, and its own stem.
word_of(i) ==
  <<consonants[((i \div 100) % 10) + 1], consonants[((i \div 10) % 10) + 1],
    consonants[(i % 10) + 1]>>

RECURSIVE words_from(_, _)
\* n words from the i-th on, with a blank between them.
words_from(i, n) ==
  IF n = 1 THEN word_of(i) ELSE word_of(i) \o <<" ">> \o words_from(i + 1, n - 1)

\* The number of texts of the largest corpus.
MaxDocs == 67

\* A corpus of n texts of eight words.
corpus_of(n) == [j \in 1..n |-> words_from(8 * (j - 1), 8)]

LargeCorpora == {corpus_of(MaxDocs - 47), corpus_of(MaxDocs)}

\* The corpora to fit, one after the other: one or two of SpecFE's corpora,
\* or a large corpus before or after one of two of them.
FitSequences ==
  {<<c>> : c \in Corpora \cup LargeCorpora}
    \cup {<<c, d>> : c \in Corpora, d \in Corpora}
    \cup {<<c, d>> : c \in LargeCorpora,
                     d \in {<<SampleTexts[1]>>, email_texts_of(1)}}
    \cup {<<c, d>> : c \in {<<SampleTexts[1]>>, email_texts_of(1)},
                     d \in LargeCorpora}

InitVocab ==
  /\ InitExtractor
  /\ trainer = NewTrainer
  /\ script \in FitSequences
  /\ trainer_call = [op |-> "__init__", pc |-> 0, at |-> "return", res |-> Return(<<>>)]
  /\ runs = 0
  /\ files = [p \in Paths |-> absent]
  /\ saved = None
  /\ reader = NoReader
  /\ response = None
  /\ InitServing

\* extractor.fit_tfidf(email_texts) on the next corpus; the call is recorded
\* with the number of its texts.
fit_next_corpus ==
  /\ script # <<>>
  /\ \E res \in {fit_tfidf(extractor, Head(script))} :
       /\ IF res.exc = "none" THEN extractor' = res.val
          ELSE extractor' \in after_failed_fit(extractor)
       /\ last_call' = Call("fit_tfidf", Len(Head(script)),
                            IF res.exc = "none" THEN Return(<<>>) ELSE res)
  /\ script' = Tail(script)
  /\ UNCHANGED <<trainer, trainer_call, runs, files, saved, reader, response,
                 serving_vars>>

NextVocab == fit_next_corpus

SpecVocab == InitVocab /\ [][NextVocab]_vars

(***************************************************************************)
(* The Calculator, given one expression: every string of at most MaxExpr   *)
(* characters of ExprAlphabet, and the expressions of test_calculator.py.  *)
(***************************************************************************)

ExprAlphabet == {"0", "5", ".", "-", "/", " "}

\* The length of the longest enumerated expression.
MaxExpr == 5

RECURSIVE ExpressionsOf(_)
\* The strings of at most n characters of ExprAlphabet.
ExpressionsOf(n) ==
  IF n = 0 THEN {<<>>}
  ELSE LET shorter == ExpressionsOf(n - 1)
       IN  shorter \cup {Append(s, c) : s \in {x \in shorter : Len(x) = n - 1},
                                        c \in ExprAlphabet}

TestExpressions ==
  { <<"5", " ", "/", " ", "0">>,
    <<"-", "1", "0", " ", "/", " ", "0">>,
    <<"1", "5", " ", "/", " ", "3">>,
    <<"1", "0", " ", "/", " ", "4">>,
    <<"-", "1", "5", " ", "/", " ", "-", "3">>,
    <<"1", "0", ".", "5", " ", "/", " ", "-", "2", ".", "5">>,
    <<"-", "1", "0", " ", "/", " ", "-", "0", ".", "0", "0">>,
    <<" ", " ", "5", " ", " ", " ", "+", " ", " ", " ", "3", " ", " ">>,
    <<"3", " ", "-", " ", "-", "5">>,
    <<"2", ".", "5", " ", "*", " ", "4">>,
    <<"2", " ", "*", "*", " ", "3">>,
    <<"3", " ", "^", " ", "2">>,
    <<"4", " ", "*", "*", " ", "0", ".", "5">>,
    <<"5", " ", "+", "+", " ", "3">>,
    <<"5", ".", "5", ".", "5", " ", "+", " ", "3">>,
    <<"5", " ", "&", " ", "3">>,
    <<"5", " ", "+">>,
    <<"+", " ", "3">>,
    <<"5", " ", "+", " ", "3", " ", "+", " ", "2">>,
    <<"a", "b", "c", " ", "+", " ", "3">>,
    <<"5", " ", "+", " ", "d", "e", "f">>,
    <<"5", ".", " ", "*", " ", "3">>,
    <<"5", " ", "*", " ", "*", " ", "3">>,
    <<"1", "e", "5", " ", "+", " ", "3">> }

\* Powers, with and without a leading minus sign, written with ** and
\* with ^: whole and fractional bases and exponents, a zero base, negative
\* exponents, and an exponent that overflows the floats.
PowerExpressions ==
  {sign \o a \o blank \o op \o blank \o b :
     sign \in {<<>>, <<"-">>},
     a \in {<<"0">>, <<"2">>, <<"3">>, <<"1", "0">>, <<"1", ".", "5">>, <<".", "5">>},
     blank \in {<<>>, <<" ">>},
     op \in {<<"*", "*">>, <<"^">>},
     b \in {<<"0">>, <<"2">>, <<"3">>, <<"-", "1">>, <<"-", "2">>,
            <<"0", ".", "5">>, <<"4", "0", "0">>}}

Expressions == ExpressionsOf(MaxExpr) \cup TestExpressions \cup PowerExpressions

InitCalc ==
  /\ extractor = NewFeatureExtractor
  /\ last_call \in {Call("expression", e, Return(<<>>)) : e \in Expressions}
  /\ InitTrainer
  /\ reader = NoReader
  /\ response = None
  /\ InitServing

\* calc.parse_expression(expression) on the input expression.
call_parse_expression ==
  /\ last_call' = Call("parse_expression", last_call.arg,
                       parse_expression(last_call.arg))
  /\ UNCHANGED <<extractor, trainer_vars, reader, response, serving_vars>>

\* calc.calculate(expression) on the input expression.
call_calculate ==
  /\ last_call' = Call("calculate", last_call.arg, calculate(last_call.arg))
  /\ response' = performed(last_call.arg)
  /\ UNCHANGED <<extractor, trainer_vars, reader, serving_vars>>

NextCalc ==
  \/ call_parse_expression
  \/ call_calculate

SpecCalc == InitCalc /\ [][NextCalc]_vars

(***************************************************************************)
(* The trainer's methods, called on one PhishingModelTrainer in any order. *)
(* save_model is three joblib.dump calls: each opens its file, which       *)
(* truncates it, and then writes it.                                       *)
(***************************************************************************)

Init ==
  /\ InitExtractor
  /\ InitTrainer
  /\ reader = NoReader
  /\ response = None
  /\ InitServing

\* History: the components a call has just fit are marked with its number.
stamp(obj, run) ==
  IF obj # None /\ obj.fitted /\ obj.tag.run = 0 THEN [obj EXCEPT !.tag.run = run] ELSE obj

stamped(self, run) ==
  [feature_extractor |-> stamp(self.feature_extractor, run),
   scaler |-> stamp(self.scaler, run),
   model |-> stamp(self.model, run)]

\* The trainers a method that ended with outcome res can have left.
left_by(res, run) ==
  IF res.at = "fit_tfidf"
  THEN {[res.self EXCEPT !.feature_extractor = after] :
          after \in after_failed_fit(res.self.feature_extractor)}
  ELSE {stamped(res.self, run)}

Ended(op, res) ==
  [op |-> op, pc |-> 0, at |-> res.at,
   res |-> IF res.exc = "none" THEN Return(res.val) ELSE Raise(res.exc)]

\* X = trainer.extract_features(emails); y = labels, on dataset d.
call_extract_features(d) ==
  /\ trainer_call.pc = 0
  /\ runs < MaxRuns
  /\ \E res \in {extract_features(trainer, email_texts_of(d))} :
         /\ trainer' \in left_by(res, runs + 1)
         /\ script' = IF res.exc = "none" THEN [X |-> res.val, y |-> labels_of(d)]
                      ELSE script
         /\ trainer_call' = Ended("extract_features", [res EXCEPT !.val = <<>>])
  /\ runs' = runs + 1
  /\ UNCHANGED <<files, saved, reader, response, fe_vars, serving_vars>>

\* trainer.train_model(X, y, model_type) on the X and y the program holds.
call_train_model(model_type, static_dir) ==
  /\ trainer_call.pc = 0
  /\ runs < MaxRuns
  /\ script.X # <<>>
  /\ \E res \in {train_model(trainer, script.X, script.y, model_type, static_dir)} :
         /\ trainer' \in left_by(res, runs + 1)
         /\ trainer_call' = Ended("train_model", res)
  /\ runs' = runs + 1
  /\ UNCHANGED <<script, files, saved, reader, response, fe_vars, serving_vars>>

\* trainer.train_and_save(model_type) with dataset d in data/; save_model
\* follows when neither extract_features nor train_model raised.
call_train_and_save(d, model_type, static_dir) ==
  /\ trainer_call.pc = 0
  /\ runs < MaxRuns
  /\ \E res \in {train_and_save(trainer, Datasets[d], model_type, static_dir)} :
         /\ trainer' \in left_by(res, runs + 1)
         /\ trainer_call' = IF res.exc # "none" THEN Ended("train_and_save", res)
                            ELSE [Ended("train_and_save", res) EXCEPT !.pc = 1,
                                                                      !.at = "save_model"]
  /\ runs' = runs + 1
  /\ UNCHANGED <<script, files, saved, reader, response, fe_vars, serving_vars>>

\* trainer.save_model() begins; os.makedirs('models', exist_ok=True).
call_save_model ==
  /\ trainer_call.pc = 0
  /\ trainer_call' = [op |-> "save_model", pc |-> 1, at |-> "save_model",
                      res |-> Return(<<>>)]
  /\ UNCHANGED <<trainer, script, runs, files, saved, reader, response, fe_vars,
                 serving_vars>>

\* The attributes save_model dumps and the files, in its order; the loaders
\* read the files in the same order.
Components == << "model", "feature_extractor", "scaler" >>

ComponentPaths == << model_path, feature_extractor_path, scaler_path >>

\* save_model's next half of a joblib.dump: steps 1, 3, 5 open a file, steps
\* 2, 4, 6 write it; after step 6 save_model returns.
save_model_step ==
  /\ trainer_call.pc \in 1..6
  /\ LET k == (trainer_call.pc + 1) \div 2
     IN  files' = IF trainer_call.pc % 2 = 1
                  THEN dump_open(files, ComponentPaths[k])
                  ELSE dump_write(files, ComponentPaths[k], trainer[Components[k]])
  /\ trainer_call' = [trainer_call EXCEPT !.pc = IF @ = 6 THEN 0 ELSE @ + 1,
                                          !.at = IF trainer_call.pc = 6 THEN "return" ELSE @]
  /\ saved' = IF trainer_call.pc = 6 THEN trainer ELSE saved
  /\ reader' = [reader EXCEPT !.clean = FALSE]
  /\ UNCHANGED <<trainer, script, runs, response, fe_vars, serving_vars>>

ModelTypes == {"random_forest", "logistic_regression"}

NextTrain ==
  \/ \E d \in DatasetIds : call_extract_features(d)
  \/ \E model_type \in ModelTypes, static_dir \in BOOLEAN :
       call_train_model(model_type, static_dir)
  \/ \E d \in DatasetIds, model_type \in ModelTypes, static_dir \in BOOLEAN :
       call_train_and_save(d, model_type, static_dir)
  \/ call_save_model
  \/ save_model_step

SpecTrain == Init /\ [][NextTrain]_vars

(***************************************************************************)
(* The programs as they are run: python model_trainer.py writes models/,   *)
(* python app.py and python cli.py load it and classify.  They are         *)
(* different processes: a load can fall between any two steps of           *)
(* save_model.                                                             *)
(***************************************************************************)

\* train_and_save('random_forest') on a new trainer, per dataset in data/ and
\* per state of static/, evaluated once.
TrainingRuns ==
  [d \in DatasetIds |-> [static_dir \in BOOLEAN |->
     train_and_save(NewTrainer, Datasets[d], "random_forest", static_dir)]]

\* model_trainer.py main(): trainer = PhishingModelTrainer();
\* trainer.train_and_save('random_forest').
main(d, static_dir) ==
  /\ trainer_call.pc = 0
  /\ runs < MaxRuns
  /\ \E res \in {TrainingRuns[d][static_dir]} :
         /\ trainer' \in left_by(res, runs + 1)
         /\ trainer_call' = IF res.exc # "none" THEN Ended("main", res)
                            ELSE [Ended("main", res) EXCEPT !.pc = 1, !.at = "save_model"]
  /\ runs' = runs + 1
  /\ UNCHANGED <<script, files, saved, reader, response, fe_vars, serving_vars>>

\* A serving process starts: python app.py (initialize_app) or python cli.py
\* (main).  clean is history: the load began after a save_model had returned
\* and no dump has run since.
start(prog) ==
  /\ reader.pc \in {0, 4}
  /\ reader' = [NoReader EXCEPT !.prog = prog, !.pc = 1, !.returned = "running",
                                !.clean = (trainer_call.pc = 0 /\ saved # None)]
  /\ response' = None
  /\ UNCHANGED <<trainer_vars, fe_vars, serving_vars>>

\* The web process starts by import (a WSGI server's `app:app`, or
\* test_app.py's `from app import app` and app.test_client()): the module body
\* sets the three globals to None and registers the routes; __name__ is not
\* '__main__', so initialize_app is not called and the app serves at once.
import_app ==
  /\ reader.pc \in {0, 4}
  /\ reader' = [NoReader EXCEPT !.prog = "app", !.pc = 4, !.returned = "not called"]
  /\ response' = None
  /\ UNCHANGED <<trainer_vars, fe_vars, serving_vars>>

\* app.py load_model_components, one joblib.load: each result is assigned to
\* its global as it arrives; any exception ends the function with False.
app_load_model_components ==
  /\ reader.prog = "app"
  /\ reader.pc \in 1..3
  /\ \E res \in {joblib_load(files, ComponentPaths[reader.pc])} :
         reader' =
           IF res.exc # "none" THEN [reader EXCEPT !.pc = 4, !.returned = "False"]
           ELSE [reader EXCEPT ![Components[reader.pc]] = res.val,
                               !.pc = @ + 1,
                               !.returned = IF reader.pc = 3 THEN "True" ELSE @]
  /\ UNCHANGED <<trainer_vars, response, fe_vars, serving_vars>>

\* cli.py load_model_components, one joblib.load: the results are locals
\* until all three are returned; FileNotFoundError returns three Nones, any
\* other exception leaves main.
cli_load_model_components ==
  /\ reader.prog = "cli"
  /\ reader.pc \in 1..3
  /\ \E res \in {joblib_load(files, ComponentPaths[reader.pc])} :
         reader' =
           IF res.exc = "FileNotFoundError"
           THEN [NoReader EXCEPT !.prog = "cli", !.pc = 4, !.returned = "None, None, None"]
           ELSE IF res.exc # "none"
           THEN [NoReader EXCEPT !.prog = "cli", !.pc = 4, !.returned = res.exc]
           ELSE [reader EXCEPT ![Components[reader.pc]] = res.val,
                               !.pc = @ + 1,
                               !.returned = IF reader.pc = 3 THEN "loaded" ELSE @]
  /\ UNCHANGED <<trainer_vars, response, fe_vars, serving_vars>>

\* The web process calls predict_phishing(email_text).
app_predict(email_text) ==
  /\ reader.prog = "app"
  /\ reader.pc = 4
  /\ response' = Call("predict_phishing", email_text,
                      predict_phishing(reader.model, reader.feature_extractor,
                                       reader.scaler, email_text))
  /\ UNCHANGED <<trainer_vars, reader, fe_vars, serving_vars>>

\* cli.py main goes on past `if not all([...]): sys.exit(1)` and calls
\* predict_email(email_text, ...).
cli_predict(email_text) ==
  /\ reader.prog = "cli"
  /\ reader.pc = 4
  /\ reader.returned = "loaded"
  /\ all_of(reader.model, reader.feature_extractor, reader.scaler) = Return(TRUE)
  /\ response' = Call("predict_email", email_text,
                      Return(predict_email(email_text, reader.model,
                                           reader.feature_extractor, reader.scaler)))
  /\ UNCHANGED <<trainer_vars, reader, fe_vars, serving_vars>>

\* The bodies POSTed to /predict: no JSON, JSON that is no object, and
\* objects without email_text, with a null or a number, with the empty
\* string, with whitespace, and with texts with and without whitespace around
\* them.
Bodies ==
  {InvalidJson, JsonArray}
    \cup {JsonObject(JsonValue(type, <<>>)) : type \in {"missing", "null", "number"}}
    \cup {JsonObject(JsonValue("string", t)) :
            t \in {<<>>, <<" ">>, <<" ", "\n", "\t">>,
                   <<"\n", " ">> \o SampleTexts[2] \o <<" ", "\n">>, SampleTexts[4]}}

\* The web process answers POST /predict.
post_predict(body) ==
  /\ reader.prog = "app"
  /\ reader.pc = 4
  /\ \E wordcloud \in generate_wordcloud(body.email_text.value) :
        response' = Call("POST /predict", body,
                         Return(predict_route(reader.model, reader.feature_extractor,
                                              reader.scaler, body, wordcloud)))
  /\ UNCHANGED <<trainer_vars, reader, fe_vars, serving_vars>>

\* The web process answers GET /health.
get_health ==
  /\ reader.prog = "app"
  /\ reader.pc = 4
  /\ response' = Call("GET /health", <<>>,
                      Return(health(reader.model, reader.feature_extractor, reader.scaler)))
  /\ UNCHANGED <<trainer_vars, reader, fe_vars, serving_vars>>

Next ==
  \/ \E d \in DatasetIds, static_dir \in BOOLEAN : main(d, static_dir)
  \/ save_model_step
  \/ \E prog \in {"app", "cli"} : start(prog)
  \/ import_app
  \/ app_load_model_components
  \/ cli_load_model_components
  \/ \E email_text \in ProbeTexts : app_predict(email_text)
  \/ \E email_text \in ProbeTexts : cli_predict(email_text)
  \/ \E body \in Bodies : post_predict(body)
  \/ get_health

Spec == Init /\ [][Next]_vars

(***************************************************************************)
(* Classification in a process that has loaded its three components:      *)
(* the web process serves up to MaxReq requests at a time, each a call of  *)
(* predict_phishing whose statements interleave with the others'; cli.py   *)
(* calls predict_email for one text after the other.  Every statement      *)
(* reads the components where the process holds them.                      *)
(***************************************************************************)

\* A transform that also updates the scaler's running sums with the row it
\* is given (partial_fit in transform).
after_transform_partial_fit(self, x) ==
  [self EXCEPT !.n_samples_seen_ = @ + 1,
               !.sum_ = array([j \in 1..Len(@) |-> @[j] + x[j]])]

\* The scaler after transform and the classifier after predict and
\* predict_proba: the calls assign no attribute.
after_transform(self, x) == self

after_predict(self, x) == self

\* The state after python model_trainer.py has run on dataset d and has
\* saved, and the serving process has then loaded.  With mix # d the program
\* has run once more, on dataset mix, while the process was loading: the
\* process read the model before that run dumped it, the feature extractor
\* after, and the scaler before.
Loaded(prog, d, mix) ==
  /\ trainer = stamped(TrainingRuns[mix][TRUE].self, IF mix = d THEN 1 ELSE 2)
  /\ trainer_call = [op |-> "main", pc |-> 0, at |-> "return",
                     res |-> Return(TrainingRuns[mix][TRUE].val)]
  /\ runs = IF mix = d THEN 1 ELSE 2
  /\ script = [X |-> <<>>, y |-> <<>>]
  /\ saved = trainer
  /\ files = [p \in Paths |->
                pickled(IF p = model_path THEN trainer.model
                        ELSE IF p = scaler_path THEN trainer.scaler
                        ELSE trainer.feature_extractor)]
  /\ reader = [prog |-> prog, pc |-> 4,
               model |-> stamped(TrainingRuns[d][TRUE].self, 1).model,
               feature_extractor |-> trainer.feature_extractor,
               scaler |-> stamped(TrainingRuns[d][TRUE].self, 1).scaler,
               returned |-> IF prog = "app" THEN "True" ELSE "loaded",
               clean |-> mix = d]

\* The datasets python model_trainer.py trains on without an exception.
TrainableIds == {d \in DatasetIds : TrainingRuns[d][TRUE].exc = "none"}

InitInfer ==
  /\ InitExtractor
  /\ \E prog \in {"app", "cli"}, d \in TrainableIds, mix \in TrainableIds :
       Loaded(prog, d, mix)
  /\ response = None
  /\ InitServing

\* What the function returns when its try block raised exc.
failed(prog, exc) ==
  IF prog = "app" THEN Return(<<None, Message("Error during prediction", exc)>>)
  ELSE Return(None)

\* A request arrives with email_text; predict_phishing begins with
\* `if not all([model, feature_extractor, scaler])`, predict_email has no
\* such statement.  cli.py classifies one text at a time.
request_begin(i, email_text) ==
  /\ requests[i].pc = "free"
  /\ reader.prog = "cli" => \A j \in 1..MaxReq : requests[j].pc = "free"
  /\ \E loaded \in {IF reader.prog = "app"
                    THEN all_of(reader.model, reader.feature_extractor, reader.scaler)
                    ELSE Return(TRUE)} :
       requests' = [requests EXCEPT ![i] =
         IF loaded.exc # "none"
         THEN [NoRequest EXCEPT !.pc = "done", !.email_text = email_text,
                                !.returned = Raise(loaded.exc)]
         ELSE IF ~loaded.val
         THEN [NoRequest EXCEPT !.pc = "done", !.email_text = email_text,
                 !.returned = Return(<<None, None, Message("Model not loaded", "")>>)]
         ELSE [NoRequest EXCEPT !.pc = "extract", !.email_text = email_text]]
  /\ UNCHANGED <<fe_vars, trainer_vars, reader, response, first_features>>

\* features = feature_extractor.extract_all_features(email_text)
request_extract(i) ==
  /\ requests[i].pc = "extract"
  /\ \E features \in {IF reader.feature_extractor = None THEN Raise("AttributeError")
                      ELSE extract_all_features(reader.feature_extractor,
                                                requests[i].email_text)} :
       /\ requests' = [requests EXCEPT ![i] =
            IF features.exc # "none"
            THEN [@ EXCEPT !.pc = "done", !.features = features,
                           !.returned = failed(reader.prog, features.exc)]
            ELSE [@ EXCEPT !.pc = "scale", !.features = features]]
       /\ first_features' =
            IF first_features[requests[i].email_text] = None
            THEN [first_features EXCEPT ![requests[i].email_text] = features]
            ELSE first_features
  /\ reader' = IF reader.feature_extractor = None THEN reader
               ELSE [reader EXCEPT !.feature_extractor =
                       after_extract(@, requests[i].email_text)]
  /\ UNCHANGED <<fe_vars, trainer_vars, response>>

\* features_scaled = scaler.transform(features)
request_scale(i) ==
  /\ requests[i].pc = "scale"
  /\ \E features_scaled \in {IF reader.scaler = None THEN Raise("AttributeError")
                             ELSE scaler_transform(reader.scaler,
                                                   requests[i].features.val)} :
       requests' = [requests EXCEPT ![i] =
         IF features_scaled.exc # "none"
         THEN [@ EXCEPT !.pc = "done",
                        !.returned = failed(reader.prog, features_scaled.exc)]
         ELSE [@ EXCEPT !.pc = "predict", !.features_scaled = features_scaled.val]]
  /\ reader' = IF reader.scaler = None THEN reader
               ELSE [reader EXCEPT !.scaler = after_transform(@, requests[i].features.val)]
  /\ UNCHANGED <<fe_vars, trainer_vars, response, first_features>>

\* prediction = model.predict(features_scaled)[0]
request_predict(i) ==
  /\ requests[i].pc = "predict"
  /\ \E prediction \in {IF reader.model = None THEN Raise("AttributeError")
                        ELSE predict(reader.model, requests[i].features_scaled)} :
       requests' = [requests EXCEPT ![i] =
         IF prediction.exc # "none"
         THEN [@ EXCEPT !.pc = "done", !.returned = failed(reader.prog, prediction.exc)]
         ELSE [@ EXCEPT !.pc = "predict_proba", !.prediction = prediction.val]]
  /\ reader' = IF reader.model = None THEN reader
               ELSE [reader EXCEPT !.model = after_predict(@, requests[i].features_scaled)]
  /\ UNCHANGED <<fe_vars, trainer_vars, response, first_features>>

\* probability = model.predict_proba(features_scaled)[0], the dict and the
\* return.
request_predict_proba(i) ==
  /\ requests[i].pc = "predict_proba"
  /\ \E probability \in {IF reader.model = None THEN Raise("AttributeError")
                         ELSE predict_proba(reader.model, requests[i].features_scaled)} :
       requests' = [requests EXCEPT ![i] =
         [@ EXCEPT !.pc = "done",
                   !.returned =
                     IF probability.exc # "none" THEN failed(reader.prog, probability.exc)
                     ELSE IF Len(probability.val) < 2 THEN failed(reader.prog, "IndexError")
                     ELSE IF reader.prog = "app"
                     THEN Return(<<result_dict(requests[i].prediction, probability.val[2],
                                               probability.val[1]), None>>)
                     ELSE Return(result_dict(requests[i].prediction, probability.val[2],
                                             probability.val[1]))]]
  /\ reader' = IF reader.model = None THEN reader
               ELSE [reader EXCEPT !.model = after_predict(@, requests[i].features_scaled)]
  /\ UNCHANGED <<fe_vars, trainer_vars, response, first_features>>

\* The caller has the result; it is the process's last response.
request_end(i) ==
  /\ requests[i].pc = "done"
  /\ response' = Call(IF reader.prog = "app" THEN "predict_phishing" ELSE "predict_email",
                      requests[i].email_text, requests[i].returned)
  /\ requests' = [requests EXCEPT ![i] = NoRequest]
  /\ UNCHANGED <<fe_vars, trainer_vars, reader, first_features>>

NextInfer ==
  \/ \E i \in 1..MaxReq, email_text \in ProbeTexts : request_begin(i, email_text)
  \/ \E i \in 1..MaxReq : request_extract(i)
  \/ \E i \in 1..MaxReq : request_scale(i)
  \/ \E i \in 1..MaxReq : request_predict(i)
  \/ \E i \in 1..MaxReq : request_predict_proba(i)
  \/ \E i \in 1..MaxReq : request_end(i)

SpecInfer == InitInfer /\ [][NextInfer]_vars

(***************************************************************************)
(* cli.py interactive_mode, called by main with the three loaded           *)
(* components.  The standard input is a finite stream of lines and         *)
(* end-of-file signals (Ctrl+D on a terminal); once the stream is used up  *)
(* every further input() raises EOFError.  last_call is the last input()   *)
(* with the stream that remains; reader.lines is the local list lines.     *)
(* Positions: 5 at `line = input()` of the inner loop, 6 after the inner   *)
(* loop, 7 at the input() after 'Press Enter ...', 8 outside the function, *)
(* with returned "None" after return or break and the exception's name     *)
(* after an exception that left it.                                        *)
(***************************************************************************)

Line(text) == [eof |-> FALSE, line |-> text]

EndOfFile == [eof |-> TRUE, line |-> <<>>]

InputItems ==
  {Line(text) : text \in TypedLines \cup {quit, <<" ", "Q", "u", "i", "T", "\t">>}}
    \cup {EndOfFile}

RECURSIVE InputStreams(_)
InputStreams(n) ==
  IF n = 0 THEN {<<>>}
  ELSE LET shorter == InputStreams(n - 1)
       IN  shorter \cup {Append(s, item) : s \in shorter, item \in InputItems}

\* input(): the line read, or EOFError at an end-of-file signal and on the
\* exhausted stream.
input(stdin) ==
  IF stdin = <<>> \/ Head(stdin).eof THEN Raise("EOFError")
  ELSE Return(Head(stdin).line)

\* The stream after one input().
after_input(stdin) == IF stdin = <<>> THEN <<>> ELSE Tail(stdin)

\* line.strip().lower() == 'quit'
is_quit(line) == str_lower(strip(line)) = quit

InitInteractive ==
  /\ extractor = NewFeatureExtractor
  /\ last_call \in {Call("stdin", stdin, Return(<<>>)) : stdin \in InputStreams(MaxInput)}
  /\ \E d \in TrainableIds, mix \in TrainableIds : Loaded("cli", d, mix)
  /\ response = None
  /\ InitServing

\* main calls interactive_mode(model, feature_extractor, scaler) past
\* `if not all([...]): sys.exit(1)`; the function reaches the inner loop
\* with lines = [].
interactive_mode ==
  /\ reader.prog = "cli"
  /\ reader.pc = 4
  /\ reader.returned = "loaded"
  /\ all_of(reader.model, reader.feature_extractor, reader.scaler) = Return(TRUE)
  /\ reader' = [reader EXCEPT !.pc = 5, !.returned = "running"] @@ [lines |-> <<>>]
  /\ UNCHANGED <<extractor, last_call, trainer_vars, response, serving_vars>>

\* The inner loop's `line = input()`: 'quit' returns, any other line is
\* appended, EOFError breaks out of the inner loop.
read_line ==
  /\ reader.pc = 5
  /\ \E line \in {input(last_call.arg)} :
       /\ last_call' = Call("input", after_input(last_call.arg), line)
       /\ reader' =
            IF line.exc # "none" THEN [reader EXCEPT !.pc = 6]
            ELSE IF is_quit(line.val) THEN [reader EXCEPT !.pc = 8, !.returned = "None"]
            ELSE [reader EXCEPT !.lines = Append(@, line.val)]
  /\ UNCHANGED <<extractor, trainer_vars, response, serving_vars>>

\* After the inner loop: no content goes back to the top of the outer loop
\* (continue); content is classified and the function prompts with
\* 'Press Enter ...'.
analyze_lines ==
  /\ reader.pc = 6
  /\ \E email_text \in {join_lines(reader.lines)} :
       IF strip(email_text) = <<>>
       THEN /\ reader' = [reader EXCEPT !.pc = 5, !.lines = <<>>]
            /\ UNCHANGED response
       ELSE /\ reader' = [reader EXCEPT !.pc = 7]
            /\ response' = Call("predict_email", email_text,
                                Return(predict_email(email_text, reader.model,
                                                     reader.feature_extractor,
                                                     reader.scaler)))
  /\ UNCHANGED <<extractor, last_call, trainer_vars, serving_vars>>

\* `if input().strip().lower() == 'quit': break`: this input() is outside the
\* inner try, and the outer try catches KeyboardInterrupt only, so its
\* EOFError leaves the function.
read_answer ==
  /\ reader.pc = 7
  /\ \E line \in {input(last_call.arg)} :
       /\ last_call' = Call("input", after_input(last_call.arg), line)
       /\ reader' =
            IF line.exc # "none" THEN [reader EXCEPT !.pc = 8, !.returned = line.exc]
            ELSE IF is_quit(line.val) THEN [reader EXCEPT !.pc = 8, !.returned = "None"]
            ELSE [reader EXCEPT !.pc = 5, !.lines = <<>>]
  /\ UNCHANGED <<extractor, trainer_vars, response, serving_vars>>

\* Ctrl+C while the function runs: except KeyboardInterrupt prints Goodbye and
\* breaks.
keyboard_interrupt ==
  /\ reader.pc \in 5..7
  /\ reader' = [reader EXCEPT !.pc = 8, !.returned = "None"]
  /\ UNCHANGED <<extractor, last_call, trainer_vars, response, serving_vars>>

\* The steps the program takes by itself.
interactive_step ==
  \/ interactive_mode
  \/ read_line
  \/ analyze_lines
  \/ read_answer

NextInteractive ==
  \/ interactive_step
  \/ keyboard_interrupt

SpecInteractive == InitInteractive /\ [][NextInteractive]_vars

\* The interpreter keeps running the function: every step of the program that
\* is possible is eventually taken.  Nothing makes the user press Ctrl+C.
SpecInteractiveFair == SpecInteractive /\ WF_vars(interactive_step)

(***************************************************************************)
(* calculator.py main(): the program loop.  The standard input is a finite *)
(* stream of outcomes of input(): a line, EOFError (Ctrl+D) or             *)
(* KeyboardInterrupt (Ctrl+C at the prompt); on the exhausted stream       *)
(* input() raises EOFError.  last_call is the last input() with the stream *)
(* that remains, response the last thing the loop did.  Positions: 1 at    *)
(* get_user_input(), 2 at calc.calculate(user_input), 3 after the program  *)
(* has ended (returned "break" or "SystemExit").                           *)
(***************************************************************************)

\* The commands that end the loop, and the ones that display the help.
quit_commands == {quit, <<"e", "x", "i", "t">>, <<"q">>}

help_commands == {<<"h", "e", "l", "p">>, <<"h">>}

\* The lines typed at the calculator's prompt.
CalculatorLines ==
  {quit, <<" ", "E", "X", "I", "T", " ">>, <<"Q">>, <<"h", "e", "l", "p">>, <<"H">>,
   <<>>, <<" ", " ">>,
   <<"q", "u", "i", "t", " ", "+", " ", "1">>,
   <<"2", " ", "+", " ", "3">>,
   <<"5", " ", "/", " ", "0">>,
   <<"5", " ", "+">>,
   <<"1", "0", " ", "*", "*", " ", "4", "0", "0">>}

CalculatorInputs ==
  {Return(line) : line \in CalculatorLines}
    \cup {Raise("EOFError"), Raise("KeyboardInterrupt")}

RECURSIVE CalculatorStreams(_)
CalculatorStreams(n) ==
  IF n = 0 THEN {<<>>}
  ELSE LET shorter == CalculatorStreams(n - 1)
       IN  shorter \cup {Append(s, item) : s \in shorter, item \in CalculatorInputs}

\* An except chain that lets ZeroDivisionError through.
handler_value_errors(exc) ==
  IF exc = "ValueError" THEN "Error"
  ELSE IF exc = "KeyboardInterrupt" THEN "Goodbye"
  ELSE "none"

\* What takes an exception raised by calc.calculate or calc.format_result:
\* the inner try's except clauses in their order, the last of which takes
\* every Exception; KeyboardInterrupt is no Exception and is taken by the
\* outer try's `except KeyboardInterrupt`, SystemExit by nothing.  The value
\* is the message printed.
handler(exc) ==
  IF exc = "ValueError" THEN "Error"
  ELSE IF exc = "ZeroDivisionError" THEN "Math Error"
  ELSE IF exc = "OverflowError" THEN "Overflow Error"
  ELSE IF exc = "KeyboardInterrupt" THEN "Goodbye"
  ELSE IF exc = "SystemExit" THEN "none"
  ELSE "Unexpected Error"

Printed(message) == Call("print", <<>>, Return(message))

InitMain ==
  /\ extractor = NewFeatureExtractor
  /\ last_call \in {Call("stdin", stdin, Return(<<>>)) : stdin \in CalculatorStreams(MaxInput)}
  /\ InitTrainer
  /\ reader = [NoReader EXCEPT !.prog = "calculator", !.pc = 1, !.returned = "running"]
  /\ response = None
  /\ InitServing

\* get_user_input() and the branches on user_input: KeyboardInterrupt and
\* EOFError print Goodbye and sys.exit(0); empty input and help go back to the
\* top of the loop, a quit command breaks, anything else goes on to the
\* calculation.
get_user_input ==
  /\ reader.prog = "calculator"
  /\ reader.pc = 1
  /\ \E res \in {IF last_call.arg = <<>> THEN Raise("EOFError") ELSE Head(last_call.arg)} :
       /\ last_call' = Call("input", after_input(last_call.arg), res)
       /\ IF res.exc # "none"
          THEN /\ reader' = [reader EXCEPT !.pc = 3, !.returned = "SystemExit"]
               /\ response' = Printed("Goodbye")
          ELSE IF strip(res.val) = <<>>
          THEN /\ reader' = reader
               /\ response' = Printed("Please enter a calculation")
          ELSE IF str_lower(strip(res.val)) \in quit_commands
          THEN /\ reader' = [reader EXCEPT !.pc = 3, !.returned = "break"]
               /\ response' = Printed("Goodbye")
          ELSE IF str_lower(strip(res.val)) \in help_commands
          THEN /\ reader' = reader
               /\ response' = Printed("Help")
          ELSE /\ reader' = [reader EXCEPT !.pc = 2]
               /\ response' = None
  /\ UNCHANGED <<extractor, trainer_vars, serving_vars>>

\* The inner try: calc.calculate(user_input), format_result and the print of
\* the result, or the except clause that takes the exception; Ctrl+C while it
\* runs raises KeyboardInterrupt in it.
calculate_and_print ==
  /\ reader.prog = "calculator"
  /\ reader.pc = 2
  /\ \E res \in {calculate(strip(last_call.res.val)), Raise("KeyboardInterrupt")} :
       /\ response' = [Call("calculate", strip(last_call.res.val), res)
                         EXCEPT !.op = IF res.exc = "none" THEN "Result" ELSE handler(res.exc)]
       /\ reader' =
            IF res.exc = "none" THEN [reader EXCEPT !.pc = 1]
            ELSE IF handler(res.exc) = "Goodbye"
            THEN [reader EXCEPT !.pc = 3, !.returned = "break"]
            ELSE IF handler(res.exc) = "none"
            THEN [reader EXCEPT !.pc = 3, !.returned = res.exc]
            ELSE [reader EXCEPT !.pc = 1]
  /\ UNCHANGED <<extractor, last_call, trainer_vars, serving_vars>>

NextMain ==
  \/ get_user_input
  \/ calculate_and_print

SpecMain == InitMain /\ [][NextMain]_vars

(***************************************************************************)
(* The claims.                                                             *)
(***************************************************************************)

\* The feature-vector length a component expects, 0 when it has none.
expected_length(obj) ==
  IF obj = None \/ ~obj.fitted THEN 0
  ELSE IF "vocabulary_" \in DOMAIN obj THEN 8 + 5 + Len(obj.vocabulary_)
  ELSE obj.n_features_in_

\* Three components that are all there, all fitted, and agree on the length.
consistent(b) ==
  /\ expected_length(b.model) > 0
  /\ expected_length(b.model) = expected_length(b.feature_extractor)
  /\ expected_length(b.model) = expected_length(b.scaler)

\* The serving process reports its components as loaded.
reports_loaded == reader.pc = 4 /\ reader.returned \in {"True", "loaded"}

\* C1: once fit_tfidf has run on a corpus, extract_all_features returns, for
\* every text (the empty text included), a vector of length 8 + 5 + V, where V
\* is the size of the fitted vocabulary; get_feature_names has as many names.
C1_FeatureLength ==
  extractor.fitted /\ extractor.idf_fitted =>
    LET V == Len(extractor.vocabulary_)
    IN  /\ \A t \in Texts :
             \E r \in {extract_all_features(extractor, t)} :
                r.exc = "none" /\ Len(r.val) = 8 + 5 + V
        /\ last_call.op = "extract_all_features" =>
             last_call.res.exc = "none" /\ Len(last_call.res.val) = 8 + 5 + V
        /\ Len(get_feature_names(extractor).val) = 8 + 5 + V

\* C1's case: a fitted extractor has returned the vector of the empty text.
C1_Witness ==
  /\ extractor.fitted
  /\ extractor.idf_fitted
  /\ Len(extractor.vocabulary_) > 1
  /\ last_call.op = "extract_all_features"
  /\ last_call.arg = <<>>
  /\ Len(last_call.res.val) = 8 + 5 + Len(extractor.vocabulary_)

\* C2: after any load attempt the serving process holds all three components
\* or none of them, and it reports the components as loaded only when it
\* holds all three.
C2_AllOrNone ==
  reader.pc = 4 =>
    /\ \/ reader.model # None /\ reader.feature_extractor # None /\ reader.scaler # None
       \/ reader.model = None /\ reader.feature_extractor = None /\ reader.scaler = None
    /\ reports_loaded => reader.model # None

\* C2's failing case: app.py's load has returned False on a missing or
\* half-written feature extractor file and the global model stays loaded.
C2_PartialLoad ==
  /\ reader.prog = "app"
  /\ reader.pc = 4
  /\ reader.returned = "False"
  /\ reader.model # None
  /\ reader.feature_extractor = None
  /\ reader.scaler = None

\* C3: at every moment the three files are one artifact, all absent or all
\* written by the same training run, and a serving process that reports its
\* components as loaded holds three components of one training run.
C3_AtomicBundle ==
  /\ \/ \A p \in Paths : files[p].state = "absent"
     \/ /\ \A p \in Paths : files[p].state = "complete"
        /\ \A p, q \in Paths : files[p].pickle.tag.run = files[q].pickle.tag.run
  /\ reports_loaded =>
       /\ reader.model.tag.run = reader.feature_extractor.tag.run
       /\ reader.model.tag.run = reader.scaler.tag.run

\* C3's failing case: a load that ran while save_model was overwriting the
\* files of an earlier run reports success with components of two runs.
C3_MixedRuns ==
  /\ reports_loaded
  /\ reader.model.tag.run # reader.feature_extractor.tag.run
  /\ reader.model.tag.run = reader.scaler.tag.run

\* C4: components that disagree on the feature-vector length are never
\* reported as loaded, and no classification is attempted with them.
C4_MismatchFailsAtLoad ==
  /\ reports_loaded => consistent(reader)
  /\ /\ response # None
     /\ response.op \in {"predict_phishing", "predict_email"}
     /\ reader.returned # "False"
     => consistent(reader)

\* C4's failing case: app.py reported the components as loaded, they disagree
\* on the length, and predict_phishing ran into the scaler's ValueError.
C4_PredictedWithMismatch ==
  /\ reader.prog = "app"
  /\ reports_loaded
  /\ expected_length(reader.feature_extractor) # expected_length(reader.scaler)
  /\ response # None
  /\ response.op = "predict_phishing"
  /\ response.res = Return(<<None, Message("Error during prediction", "ValueError")>>)

\* C5: save_model writes no file when the trainer's components are not all
\* there or disagree on the feature-vector length, and every bundle it has
\* persisted has three components that agree on it.
C5_SaveValidates ==
  /\ trainer_call.pc > 1 => consistent(trainer)
  /\ saved # None => consistent(saved)

\* C5's failing case: save_model has returned after it dumped a classifier
\* and scaler fit for one vocabulary with the feature extractor of another.
C5_SavedInconsistent ==
  /\ saved # None
  /\ trainer_call.op = "save_model"
  /\ trainer_call.res.exc = "none"
  /\ expected_length(saved.model) > 0
  /\ expected_length(saved.feature_extractor) > 0
  /\ expected_length(saved.model) # expected_length(saved.feature_extractor)

\* C6: when train_and_save has fit its three components, the vocabulary, the
\* scaler and the classifier were fit on the same rows of the dataset.
C6_SameTrainingRows ==
  trainer_call.op = "train_and_save" /\ trainer_call.res.exc = "none" =>
    /\ trainer.feature_extractor.tag.rows = trainer.scaler.tag.rows
    /\ trainer.scaler.tag.rows = trainer.model.tag.rows

\* C6's failing case: train_and_save has returned; the scaler and the
\* classifier were fit on the training rows of the split, the vocabulary on
\* these and on the test rows.
C6_VocabularyFromAllRows ==
  /\ trainer_call.op = "train_and_save"
  /\ trainer_call.pc = 0
  /\ trainer_call.res.exc = "none"
  /\ trainer.scaler.tag.rows = trainer.model.tag.rows
  /\ trainer.scaler.tag.rows \subseteq trainer.feature_extractor.tag.rows
  /\ trainer.scaler.tag.rows # trainer.feature_extractor.tag.rows

\* C7: on an extractor whose vectorizer was never fit, extract_tfidf_features
\* and extract_all_features raise NotFittedError for every text (the empty text
\* included) and return no vector.
C7_NotFitted ==
  ~extractor.fitted =>
    /\ \A t \in Texts :
         /\ extract_tfidf_features(extractor, t) = Raise("NotFittedError")
         /\ extract_all_features(extractor, t) = Raise("NotFittedError")
    /\ last_call.op \in {"extract_tfidf_features", "extract_all_features"} =>
         last_call.res = Raise("NotFittedError")

\* C7's case: extract_all_features of the empty text has raised on an
\* extractor that was never fit.
C7_Witness ==
  /\ ~extractor.fitted
  /\ last_call.op = "extract_all_features"
  /\ last_call.arg = <<>>
  /\ last_call.res.exc = "NotFittedError"

\* What a request for email_text returns when it is served alone.
served_alone(email_text) ==
  IF reader.prog = "app"
  THEN predict_phishing(reader.model, reader.feature_extractor, reader.scaler, email_text)
  ELSE Return(predict_email(email_text, reader.model, reader.feature_extractor,
                            reader.scaler))

\* C8: no step of a classification changes the loaded model, the feature
\* extractor or the scaler, and under every interleaving of the requests each
\* request returns what it returns when it is served alone.
C8_ReadOnly ==
  /\ [][/\ reader'.model = reader.model
        /\ reader'.feature_extractor = reader.feature_extractor
        /\ reader'.scaler = reader.scaler]_vars
  /\ [](\A i \in 1..MaxReq :
          requests[i].pc = "done" =>
            requests[i].returned = served_alone(requests[i].email_text))

\* C8's case: a request has returned a classification while another request,
\* for another text, is between its feature extraction and its prediction.
C8_Witness ==
  \E i, j \in 1..MaxReq :
     /\ reader.prog = "app"
     /\ requests[i].pc = "done"
     /\ requests[i].returned.exc = "none"
     /\ requests[i].returned.val[2] = None
     /\ requests[i].returned.val[1].is_phishing
     /\ requests[j].pc \in {"scale", "predict"}
     /\ requests[j].email_text # requests[i].email_text

C11_Layout ==
  /\ extractor.fitted /\ extractor.idf_fitted =>
       \A t \in Texts :
          \E r \in {extract_all_features(extractor, t)} :
             /\ r.exc = "none"
             /\ SubSeq(r.val, 1, 8) = extract_basic_features(t)
             /\ SubSeq(r.val, 9, 13) = extract_advanced_features(t)
             /\ SubSeq(r.val, 14, Len(r.val))
                  = vectorizer_transform(extractor, preprocess_email(t)).val
  /\ last_call.op = "extract_all_features" /\ last_call.res.exc = "none" =>
       /\ SubSeq(last_call.res.val, 1, 8) = extract_basic_features(last_call.arg)
       /\ SubSeq(last_call.res.val, 9, 13) = extract_advanced_features(last_call.arg)
       /\ SubSeq(last_call.res.val, 14, Len(last_call.res.val))
            = vectorizer_transform(extractor, preprocess_email(last_call.arg)).val

\* C11's case: extract_all_features has returned the vector of a text with
\* markup, whose statistics differ from those of its sanitized form and whose
\* TF-IDF row has a term.
C11_Witness ==
  /\ last_call.op = "extract_all_features"
  /\ last_call.arg = SampleTexts[3]
  /\ last_call.res.exc = "none"
  /\ SubSeq(last_call.res.val, 1, 8) # extract_basic_features(preprocess_email(last_call.arg))
  /\ \E j \in 14..Len(last_call.res.val) : last_call.res.val[j] > 0

\* C12: for the empty string extract_basic_features returns 8 zeros and
\* extract_advanced_features returns 5 zeros, and neither raises.
C12_EmptyText ==
  /\ extract_basic_features(<<>>) = <<0, 0, 0, 0, 0, 0, 0, 0>>
  /\ extract_advanced_features(<<>>) = <<0, 0, 0, 0, 0>>
  /\ last_call.op = "extract_basic_features" /\ last_call.arg = <<>> =>
       last_call.res = Return(<<0, 0, 0, 0, 0, 0, 0, 0>>)
  /\ last_call.op = "extract_advanced_features" /\ last_call.arg = <<>> =>
       last_call.res = Return(<<0, 0, 0, 0, 0>>)

\* C12's case: extract_advanced_features has returned for the empty string.
C12_Witness ==
  /\ last_call.op = "extract_advanced_features"
  /\ last_call.arg = <<>>
  /\ last_call.res.exc = "none"
  /\ Len(last_call.res.val) = 5
C14_CleanedLettersOnly ==
  last_call.op = "preprocess_email" =>
    \A i \in 1..Len(last_call.res.val) :
       isalpha(last_call.res.val[i]) \/ isspace(last_call.res.val[i])

\* C14 as stated: the result of remove_html_tags has no '<' and no '>', and
\* the result of preprocess_email consists of ASCII letters and whitespace.
C14_NoMarkup ==
  /\ last_call.op = "remove_html_tags" =>
       \A i \in 1..Len(last_call.res.val) : last_call.res.val[i] \notin {"<", ">"}
  /\ C14_CleanedLettersOnly

\* C14's case: preprocess_email has returned the words of a text from which
\* remove_html_tags does not take every '<'.
C14_Witness ==
  /\ last_call.op = "preprocess_email"
  /\ \E i \in 1..Len(remove_html_tags(last_call.arg)) :
        remove_html_tags(last_call.arg)[i] = "<"
  /\ last_call.res.exc = "none"
  /\ last_call.res.val # <<>>
\* The result dict of a classification that succeeded, None for any other
\* outcome of the call.
result_of(call) ==
  IF call.res.exc # "none" THEN None
  ELSE IF call.op = "predict_phishing" THEN call.res.val[1]
  ELSE IF call.op = "predict_email" THEN call.res.val
  ELSE IF call.op = "POST /predict" /\ call.res.val.status = 200 THEN call.res.val.json
  ELSE None

\* C15: for every classification that succeeds, confidence_phishing and
\* confidence_legitimate each lie in [0, 1] and sum to 1 (the model counts
\* probabilities in hundredths).
C15_Confidences ==
  response # None /\ result_of(response) # None =>
    /\ result_of(response).confidence_phishing \in 0..100
    /\ result_of(response).confidence_legitimate \in 0..100
    /\ result_of(response).confidence_phishing
         + result_of(response).confidence_legitimate = 100

\* C15's case: cli.py has classified a text as legitimate with confidences
\* 0.9 and 0.1.
C15_Witness ==
  /\ response # None
  /\ response.op = "predict_email"
  /\ result_of(response) # None
  /\ result_of(response).prediction = "Legitimate"
  /\ result_of(response).confidence_legitimate = 90
  /\ result_of(response).confidence_phishing = 10
\* C16: a POST to /predict whose email_text is the empty string or
\* whitespace only is answered with status 400, and the route does not call
\* predict_phishing for it, whatever the process has loaded.
C16_EmptyText400 ==
  /\ response # None
  /\ response.op = "POST /predict"
  /\ response.arg.kind = "object"
  /\ response.arg.email_text.type = "string"
  /\ \A i \in 1..Len(response.arg.email_text.value) :
        isspace(response.arg.email_text.value[i])
  => /\ response.res.val.status = 400
     /\ ~response.res.val.called

\* C16's case: the process holds all three components and has answered 400
\* to a POST whose email_text is whitespace.
C16_Witness ==
  /\ reports_loaded
  /\ consistent(reader)
  /\ response # None
  /\ response.op = "POST /predict"
  /\ response.arg = JsonObject(JsonValue("string", <<" ", "\n", "\t">>))
  /\ response.res.val.status = 400
  /\ ~response.res.val.called

\* C17: a POST to /predict whose body is not valid JSON is answered with
\* status 400.
C17_InvalidJson400 ==
  response # None /\ response.op = "POST /predict" /\ response.arg.kind = "invalid" =>
    response.res.val.status = 400

\* C17's failing case: the route has answered 'Server error' with status 500
\* to a body that is not JSON.
C17_InvalidJson500 ==
  /\ response # None
  /\ response.op = "POST /predict"
  /\ response.arg = InvalidJson
  /\ response.res.val.status = 500
  /\ response.res.val.json = [error |-> Message("Server error", "BadRequest")]

\* The label the loaded classifier gives email_text.
label_of(email_text) ==
  predict(reader.model,
          scaler_transform(reader.scaler,
                           extract_all_features(reader.feature_extractor,
                                                email_text).val).val).val

\* C18: every status-200 response of /predict has the fields prediction,
\* confidence_phishing, confidence_legitimate and is_phishing; prediction is
\* 'Phishing' when the classifier's label is 1 and 'Legitimate' when it is
\* not, and is_phishing is true exactly when prediction is 'Phishing'.
C18_Response200 ==
  response # None /\ response.op = "POST /predict" /\ response.res.val.status = 200 =>
    /\ {"prediction", "confidence_phishing", "confidence_legitimate", "is_phishing"}
         \subseteq DOMAIN response.res.val.json
    /\ response.res.val.json.prediction =
         IF label_of(strip(response.arg.email_text.value)) = 1
         THEN "Phishing" ELSE "Legitimate"
    /\ response.res.val.json.is_phishing = (response.res.val.json.prediction = "Phishing")

\* C18's case: /predict has answered 200 with the prediction 'Phishing' for a
\* text sent with whitespace around it.
C18_Witness ==
  /\ response # None
  /\ response.op = "POST /predict"
  /\ response.res.val.status = 200
  /\ response.arg.email_text.value # strip(response.arg.email_text.value)
  /\ response.res.val.json.prediction = "Phishing"
  /\ response.res.val.json.is_phishing

\* C19: GET /health answers status 200 with status 'healthy' in every load
\* state, with model_status 'loaded' exactly when the model, the feature
\* extractor and the scaler are all loaded and 'not loaded' otherwise.
C19_Health ==
  response # None /\ response.op = "GET /health" =>
    /\ response.res.val.status = 200
    /\ response.res.val.json.status = "healthy"
    /\ response.res.val.json.model_status =
         IF /\ reader.model # None
            /\ reader.feature_extractor # None
            /\ reader.scaler # None
         THEN "loaded" ELSE "not loaded"

\* C19's case: /health has answered 'not loaded' in a process that holds the
\* model and not the feature extractor.
C19_Witness ==
  /\ response # None
  /\ response.op = "GET /health"
  /\ reader.model # None
  /\ reader.feature_extractor = None
  /\ response.res.val.status = 200
  /\ response.res.val.json.model_status = "not loaded"

\* The numerals that spell zero: an optional sign, then zeros with at most
\* one '.', a zero last.
is_zero(str) ==
  /\ is_number(str)
  /\ \A i \in 1..Len(str) : str[i] \in {"-", "0", "."}

\* The ways to read expression as a / b: what stands left and right of a
\* '/', without the whitespace around it.
Quotients(expression) ==
  {<<strip(SubSeq(expression, 1, k - 1)),
     strip(SubSeq(expression, k + 1, Len(expression)))>> :
     k \in {i \in 1..Len(expression) : expression[i] = "/"}}

\* expression divides some number by a numeral that spells zero.
DividesByZero(expression) ==
  \E q \in Quotients(expression) : is_number(q[1]) /\ is_zero(q[2])

\* C20: Calculator.calculate raises ZeroDivisionError for every expression
\* 'a / b' whose divisor b is zero, however the zero is written (0, -0, 0.0,
\* .0, 00 ...), for every dividend a: it returns no result.
C20_DivisionByZero ==
  (last_call.op = "calculate" /\ DividesByZero(last_call.arg))
    => last_call.res = Raise("ZeroDivisionError")

\* calculate has raised ZeroDivisionError for a zero dividend over a zero
\* that is written with a sign and a decimal point.
C20_Witness ==
  /\ last_call.op = "calculate"
  /\ last_call.res = Raise("ZeroDivisionError")
  /\ \E q \in Quotients(last_call.arg) :
       /\ q[1] = <<"0">>
       /\ is_zero(q[2])
       /\ {"-", "."} \subseteq {q[2][i] : i \in 1..Len(q[2])}


\* expression is one number, one supported operator and one number, with
\* whitespace allowed around each.
WellFormed(expression) ==
  LET stripped == strip(expression)
      n == Len(stripped)
  IN  \E j, k \in 1..n :
        /\ j <= k
        /\ SubSeq(stripped, j, k) \in
             {<<"+">>, <<"-">>, <<"*">>, <<"/">>, <<"*", "*">>, <<"^">>}
        /\ is_number(strip(SubSeq(stripped, 1, j - 1)))
        /\ is_number(strip(SubSeq(stripped, k + 1, n)))

\* C21: Calculator.calculate raises ValueError, and calls none of the
\* arithmetic methods, for every string that is not one number, one supported
\* operator and one number.
C21_InvalidExpression ==
  (last_call.op = "calculate" /\ ~WellFormed(last_call.arg))
    => (last_call.res = Raise("ValueError") /\ response = None)

\* calculate has raised ValueError, without an arithmetic call, for an
\* expression with three operands.
C21_Witness ==
  /\ last_call.op = "calculate"
  /\ last_call.res = Raise("ValueError")
  /\ response = None
  /\ \E j, k \in 1..Len(last_call.arg) :
       /\ j + 1 < k
       /\ WellFormed(SubSeq(last_call.arg, 1, k - 1))
       /\ WellFormed(SubSeq(last_call.arg, j + 1, Len(last_call.arg)))
       /\ is_number(strip(SubSeq(last_call.arg, j + 1, k - 1)))


\* The ways to read expression as -a ** b or -a ^ b, a without a sign:
\* the operator, and what stands between the minus sign and the operator
\* and after the operator, without the whitespace around them.
NegatedPowers(expression) ==
  LET stripped == strip(expression)
      n == Len(stripped)
  IN  {p \in {[op |-> SubSeq(stripped, j, k),
               a |-> strip(SubSeq(stripped, 2, j - 1)),
               b |-> strip(SubSeq(stripped, k + 1, n))] :
                j \in 3..n, k \in 3..n} :
         /\ stripped[1] = "-"
         /\ p.op \in {<<"*", "*">>, <<"^">>}
         /\ is_number(p.a) /\ p.a[1] # "-"
         /\ is_number(p.b)}

\* -a op b, written without whitespace.
negated_power(a, op, b) == <<"-">> \o a \o op \o b

\* C22: in Calculator.calculate a leading minus sign belongs to the first
\* operand: -a ** b is power(-a, b), so an even whole exponent gives a
\* result that is not negative and a whole base and exponent give the whole
\* number (-a) ** b; and -a ^ b gives what -a ** b gives.
C22_LeadingMinus ==
  last_call.op = "calculate" =>
    \A p \in NegatedPowers(last_call.arg) :
      LET base == Float(0 - float(p.a).n, float(p.a).d)
          exponent == float(p.b)
      IN  /\ response # None
          /\ response.op = "power"
          /\ response.arg = <<base, exponent>>
          /\ response.res = last_call.res
          /\ (/\ base.d = 1 /\ exponent.d = 1 /\ exponent.n >= 0
              /\ exponent.n * (ilog10(abs(base.n)) + 1) <= 9)
               => last_call.res = Return(Float(pow(base.n, exponent.n), 1))
          /\ last_call.res = calculate(negated_power(p.a, <<"*", "*">>, p.b))
          /\ last_call.res = calculate(negated_power(p.a, <<"^">>, p.b))

\* calculate has returned 4 for -2 ^ 2, or -8 for -2 ** 3.
C22_Witness ==
  /\ last_call.op = "calculate"
  /\ \E p \in NegatedPowers(last_call.arg) :
       /\ p.a = <<"2">>
       /\ \/ p.op = <<"^">> /\ p.b = <<"2">> /\ last_call.res = Return(Float(4, 1))
          \/ p.op = <<"*", "*">> /\ p.b = <<"3">>
               /\ last_call.res = Return(Float(0 - 8, 1))


\* The component was fit by the trainer's call number run.
fit_in(obj, run) == obj # None /\ obj.fitted /\ obj.tag.run = run

\* C23: train_and_save writes a model file only after this call has fit
\* the vocabulary, then the scaler on the feature vectors of that vocabulary,
\* then the classifier on the scaled vectors, none of them raising; and the
\* step in which train_and_save raises leaves every model file as it was.
C23_FitBeforeSave ==
  [][/\ (files' # files /\ trainer_call.op = "train_and_save") =>
          /\ trainer_call.res.exc = "none"
          /\ fit_in(trainer.feature_extractor, runs)
          /\ fit_in(trainer.scaler, runs)
          /\ fit_in(trainer.model, runs)
          /\ trainer.scaler.n_features_in_ = expected_length(trainer.feature_extractor)
          /\ trainer.model.n_features_in_ = trainer.scaler.n_features_in_
          /\ trainer.scaler.tag.rows \subseteq trainer.feature_extractor.tag.rows
          /\ trainer.model.tag.rows = trainer.scaler.tag.rows
     /\ (trainer_call'.op = "train_and_save" /\ trainer_call'.res.exc # "none") =>
          files' = files]_vars

\* train_and_save has raised in its second call on the trainer, after this
\* call refit the vocabulary, and the three model files still hold what its
\* first call saved.
C23_Witness ==
  /\ trainer_call.op = "train_and_save"
  /\ trainer_call.res.exc # "none"
  /\ trainer_call.at # "fit_tfidf"
  /\ runs = 2
  /\ fit_in(trainer.feature_extractor, 2)
  /\ \A path \in Paths :
       files[path].state = "complete" /\ fit_in(files[path].pickle, 1)


\* C24: after every fit and refit of the feature extractor, whatever the
\* corpus, the fitted vocabulary has at most 1000 entries.
C24_VocabularySize == Len(extractor.vocabulary_) <= 1000

\* The extractor was fit on a small corpus and then refit on the corpus of
\* MaxDocs texts, which has more than 1000 terms: the vocabulary has 1000
\* entries, among them a pair of words.
C24_Witness ==
  /\ last_call.op = "fit_tfidf"
  /\ last_call.arg = MaxDocs
  /\ last_call.res.exc = "none"
  /\ script = <<>>
  /\ 15 * MaxDocs > 1000
  /\ Len(extractor.vocabulary_) = 1000
  /\ \E i \in 1..1000 : Len(extractor.vocabulary_[i]) = 7


\* C25: extract_advanced_features raises for no text; for every text that
\* is not empty (whitespace only and punctuation only included) the sentence
\* count it returns is at least 1 and is the divisor of the average sentence
\* length; for the empty text it returns five zeros, the sentence count 0
\* among them.
C25_SentenceCount ==
  last_call.op = "extract_advanced_features" =>
    /\ last_call.res.exc = "none"
    /\ Len(last_call.res.val) = 5
    /\ last_call.arg # <<>> =>
         /\ last_call.res.val[2] >= 1
         /\ last_call.res.val[3] =
              (1000 * Len(split(last_call.arg))) \div last_call.res.val[2]
    /\ last_call.arg = <<>> => last_call.res.val[2] = 0

\* C25 as stated: the sentence count that extract_advanced_features returns
\* is at least 1 for every text.
C25_AtLeastOne ==
  last_call.op = "extract_advanced_features" =>
    last_call.res.exc = "none" /\ last_call.res.val[2] >= 1

\* extract_advanced_features has returned for a text of sentence marks only,
\* or of blanks only.
C25_Witness ==
  /\ last_call.op = "extract_advanced_features"
  /\ last_call.arg # <<>>
  /\ \/ \A i \in 1..Len(last_call.arg) : last_call.arg[i] \in {".", "!", "?"}
     \/ \A i \in 1..Len(last_call.arg) : last_call.arg[i] = " "
  /\ last_call.res.exc = "none"
  /\ last_call.res.val[2] >= 1
  /\ last_call.res.val[3] = 0


\* At least one of the web process's three globals is None.
not_loaded ==
  /\ reader.prog = "app"
  /\ reader.pc = 4
  /\ \/ reader.model = None
     \/ reader.feature_extractor = None
     \/ reader.scaler = None

\* The body is a JSON object whose email_text is a string with a character
\* that is not whitespace.
has_text(body) ==
  /\ body.kind = "object"
  /\ body.email_text.type = "string"
  /\ strip(body.email_text.value) # <<>>

\* C26: when at least one of the three components is not loaded,
\* predict_phishing returns the pair (None, 'Model not loaded'), and a POST
\* to /predict with a non-empty email is answered with status 500 and the
\* error 'Model not loaded'.
C26_ModelNotLoaded ==
  (response # None /\ not_loaded) =>
    /\ response.op = "predict_phishing" =>
         response.res = Return(<<None, Message("Model not loaded", "")>>)
    /\ (response.op = "POST /predict" /\ has_text(response.arg)) =>
         /\ response.res.val.status = 500
         /\ response.res.val.json = [error |-> Message("Model not loaded", "")]

\* C26's failing case: with a component that is None, predict_phishing has
\* returned three values, or the route, which unpacks two, has answered a
\* POST with a non-empty email with 'Server error: ...' (ValueError).
C26_ServerError ==
  /\ response # None
  /\ not_loaded
  /\ \/ /\ response.op = "predict_phishing"
        /\ response.res = Return(<<None, None, Message("Model not loaded", "")>>)
     \/ /\ response.op = "POST /predict"
        /\ has_text(response.arg)
        /\ response.res.val.status = 500
        /\ response.res.val.json = [error |-> Message("Server error", "ValueError")]
        /\ response.res.val.called


\* C27: the web application never handles a /predict request before
\* load_model_components has been attempted: whenever the web process has
\* answered POST /predict or a predict_phishing call, its load has returned
\* True or False.
load_attempted == reader.returned \in {"True", "False"}

C27_LoadBeforeRequest ==
  (reader.prog = "app" /\ response # None
     /\ response.op \in {"POST /predict", "predict_phishing"})
    => load_attempted

\* The imported app has answered POST /predict with a text, and
\* load_model_components was never called.
C27_RequestWithoutLoad ==
  /\ reader.prog = "app"
  /\ reader.returned = "not called"
  /\ response # None
  /\ response.op = "POST /predict"
  /\ has_text(response.arg)

\* C28: the web and CLI inference paths are equivalent: in a process that
\* has loaded three components, for every non-empty text, predict_phishing
\* returns (result, None) with the very dict predict_email returns, or it
\* returns (None, error) and predict_email returns None.
components_loaded ==
  /\ reader.pc = 4
  /\ reader.model # None
  /\ reader.feature_extractor # None
  /\ reader.scaler # None

same_outcome(web, cli) ==
  /\ web.exc = "none"
  /\ Len(web.val) = 2
  /\ IF cli = None THEN web.val[1] = None /\ web.val[2] # None
     ELSE web.val[1] = cli /\ web.val[2] = None

C28_SameInference ==
  components_loaded =>
    \A email_text \in ProbeTexts :
       email_text # <<>> =>
         same_outcome(predict_phishing(reader.model, reader.feature_extractor,
                                       reader.scaler, email_text),
                      predict_email(email_text, reader.model,
                                    reader.feature_extractor, reader.scaler))

\* A process with three loaded components has classified a text through
\* predict_phishing, and predict_email gives the same dict for it.
C28_Witness ==
  /\ components_loaded
  /\ response # None
  /\ response.op = "predict_phishing"
  /\ response.arg # <<>>
  /\ response.res.exc = "none"
  /\ response.res.val[2] = None
  /\ response.res.val[1] = predict_email(response.arg, reader.model,
                                         reader.feature_extractor, reader.scaler)
  /\ response.res.val[1].confidence_phishing # response.res.val[1].confidence_legitimate

\* C29: cli.interactive_mode terminates: with the program running and the
\* input a finite stream followed by end of input, the function eventually
\* returns (it neither loops forever nor leaves with an exception).
C29_Terminates == <>(reader.pc = 8 /\ reader.returned = "None")

\* The input is exhausted and the function is back at the first prompt with
\* an empty list of lines after 'No content entered', where the next input()
\* raises EOFError again.
C29_LoopsAtEndOfInput ==
  /\ reader.pc = 5
  /\ reader.lines = <<>>
  /\ last_call.op = "input"
  /\ last_call.arg = <<>>
  /\ last_call.res = Raise("EOFError")

\* C30: the calculator's main loop survives every calculation error: a step
\* in which the calculation raised ValueError, ZeroDivisionError,
\* OverflowError or any other Exception, and a step that read empty input or
\* a help command, leave the program at the prompt; a step ends the program
\* only when it read a quit command, was interrupted from the keyboard, or
\* read the end of input.
calculation_failed ==
  /\ reader.pc = 2
  /\ response'.res.exc \notin {"none", "KeyboardInterrupt"}

read_nothing_or_help ==
  /\ reader.pc = 1
  /\ last_call'.res.exc = "none"
  /\ \/ strip(last_call'.res.val) = <<>>
     \/ str_lower(strip(last_call'.res.val)) \in help_commands

read_quit ==
  /\ reader.pc = 1
  /\ last_call'.res.exc = "none"
  /\ str_lower(strip(last_call'.res.val)) \in quit_commands

interrupted_or_end_of_input ==
  \/ reader.pc = 1 /\ last_call'.res.exc \in {"KeyboardInterrupt", "EOFError"}
  \/ reader.pc = 2 /\ response'.res.exc = "KeyboardInterrupt"

C30_MainLoop ==
  [][/\ calculation_failed \/ read_nothing_or_help => reader'.pc = 1
     /\ reader'.pc = 3 => read_quit \/ interrupted_or_end_of_input]_vars

\* The loop has printed 'Math Error' for a division by zero and is at the
\* prompt again, with input left to read.
C30_Witness ==
  /\ reader.prog = "calculator"
  /\ reader.pc = 1
  /\ response # None
  /\ response.op = "Math Error"
  /\ response.res = Raise("ZeroDivisionError")
  /\ last_call.arg # <<>>

=============================================================================
